---- MODULE Spec2Model ----
(***************************************************************************)
(* monmail: the correlation and detection pipeline.                        *)
(*                                                                         *)
(* The store (storage/database.py) is a set of SQLite tables; every table  *)
(* is a sequence of rows in insertion order, and a row's id is its         *)
(* AUTOINCREMENT rowid: Len(table) + 1 for the tables written by plain     *)
(* INSERTs (rows are never deleted), and the table's sqlite_sequence row   *)
(* plus one for indicators and sightings, whose conflicting inserts use    *)
(* ids up.  Timestamps are ISO strings of one UTC clock in the code; here  *)
(* they are the naturals of `clock`, ordered the same way.                 *)
(* An absent value (Python None / SQL NULL) is NoId for ids and NoTime     *)
(* for timestamps.                                                         *)
(***************************************************************************)
EXTENDS Integers, Sequences, FiniteSets, TLC

VARIABLES
    events,       \* table events
    indicators,   \* table indicators
    indicatorSeq, \* sqlite_sequence row of table indicators
    sightings,    \* table sightings
    sightingSeq,  \* sqlite_sequence row of table sightings
    detections,   \* table detections
    alerts,       \* table alerts
    incidents,    \* table incidents
    cases,        \* table cases
    cache,        \* HOT_INDICATOR_CACHE._store
    clock,        \* datetime.now(timezone.utc)
    pc,           \* where each request handler stands
    req,          \* each request handler's local variables
    called,       \* history: per key, the update_incident calls that returned
    processed,    \* history: the (key, severity) pairs update_incident was called with
    lastSet,      \* history: per cache key, the latest set, and when its list was read
    reference,    \* history: what the lookups would have recorded, answered by the store
    ncalls,       \* history: the direct calls so far
    ret           \* the caller's view: the latest call and the value it returned

vars == <<events, indicators, indicatorSeq, sightings, sightingSeq, detections, alerts,
          incidents, cases, cache, clock, pc, req, called, processed, lastSet, reference,
          ncalls, ret>>

storeVars == <<events, indicators, indicatorSeq, sightings, sightingSeq, detections, alerts,
               incidents, cases>>
procVars == <<pc, req>>
histVars == <<called, processed, lastSet, reference, ncalls, ret>>

----------------------------------------------------------------------------
(* Bounds of the model *)

MaxTime == 2        \* the clock of the pipeline stops advancing here
MaxEvents == 2      \* ingestion requests per behaviour
MaxIndicators == 1  \* indicator ingestions per behaviour
MaxCalls == 3       \* direct calls per behaviour (store and cache specifications)
CacheTtl == 2       \* HotIndicatorCache(ttl_seconds): the ttl this instance is built with

Procs == {1, 2}     \* request handlers that may run concurrently

NoId == 0
NoTime == -1

----------------------------------------------------------------------------
(* Helpers *)

Min(a, b) == IF a < b THEN a ELSE b
Max(a, b) == IF a > b THEN a ELSE b

\* str.lower() on the strings of the model
Lower(s) ==
    CASE s = "High" -> "high"
      [] s = "EVIL.com" -> "evil.com"
      [] s = "Evil.com" -> "evil.com"
      [] s = "X.COM" -> "x.com"
      [] s = "Evil." -> "evil."
      [] s = "User" -> "user"
      [] s = "D41D8CD98F00B204E9800998ECF8427E" -> "d41d8cd98f00b204e9800998ecf8427e"
      [] s = "Domain" -> "domain"
      [] OTHER -> s

----------------------------------------------------------------------------
(* storage/database.py: sightings *)

SightingKey(r) == <<r.indicator_id, r.event_id, r.matched_field, r.matched_value>>

\* UNIQUE(indicator_id, event_id, matched_field, matched_value)
SightingConflict(tbl, s) ==
    \E i \in DOMAIN tbl : SightingKey(tbl[i]) = SightingKey(s)

SightingRow(seq, s) ==
    [id |-> seq + 1,
     indicator_id |-> s.indicator_id,
     event_id |-> s.event_id,
     matched_field |-> s.matched_field,
     matched_value |-> s.matched_value,
     timestamp |-> s.timestamp,
     score_delta |-> s.score_delta]

\* a plain INSERT: the conflict clause dropped
InsertSightingAlways(tbl, seq, s) ==
    [rows |-> Append(tbl, SightingRow(seq, s)), seq |-> seq + 1, id |-> seq + 1]

\* insert_sighting: INSERT OR IGNORE, then None when rowcount = 0, else lastrowid.
\* The id column is AUTOINCREMENT: SQLite draws the next id from the table's
\* sqlite_sequence row before it tests the constraint, so an ignored insert
\* uses an id up as well.
InsertSighting(tbl, seq, s) ==
    IF SightingConflict(tbl, s)
    THEN [rows |-> tbl, seq |-> seq + 1, id |-> NoId]
    ELSE [rows |-> Append(tbl, SightingRow(seq, s)), seq |-> seq + 1, id |-> seq + 1]

----------------------------------------------------------------------------
(* intelligence/ioc_cache.py: HotIndicatorCache *)

CacheKeys == {<<"domain", "evil.com">>, <<"ip", "1.2.3.4">>}

NoEntry == [present |-> FALSE, expires_at |-> NoTime, data |-> <<>>]
Miss == [hit |-> FALSE, data |-> <<>>]

\* get with the expiry test off by one: an entry is still served at its expiry time
CacheGetLate(store, key, now) ==
    IF ~store[key].present
    THEN [store |-> store, result |-> Miss]
    ELSE IF now > store[key].expires_at
         THEN [store |-> [store EXCEPT ![key] = NoEntry], result |-> Miss]
         ELSE [store |-> store, result |-> [hit |-> TRUE, data |-> store[key].data]]

\* get that tests the cached list for truth: an empty list reads as a miss
CacheGetEmptyMiss(store, key, now) ==
    IF ~store[key].present \/ store[key].data = <<>>
    THEN [store |-> store, result |-> Miss]
    ELSE IF now >= store[key].expires_at
         THEN [store |-> [store EXCEPT ![key] = NoEntry], result |-> Miss]
         ELSE [store |-> store, result |-> [hit |-> TRUE, data |-> store[key].data]]

\* HotIndicatorCache.get: the store afterwards and the value returned
CacheGet(store, key, now) ==
    IF ~store[key].present
    THEN [store |-> store, result |-> Miss]
    ELSE IF now >= store[key].expires_at
         THEN [store |-> [store EXCEPT ![key] = NoEntry], result |-> Miss]
         ELSE [store |-> store, result |-> [hit |-> TRUE, data |-> store[key].data]]

\* HotIndicatorCache.set
CacheSet(store, key, data, now) ==
    [store EXCEPT ![key] = [present |-> TRUE, expires_at |-> now + CacheTtl, data |-> data]]

----------------------------------------------------------------------------
(* storage/database.py: indicators *)

\* intelligence/ioc_normalization.py normalize_indicator_value: strip, and
\* lower-case for domain, email and hash (the model's values carry no blanks)
NormalizeIndicatorValue(indicator_type, value) ==
    IF indicator_type \in {"domain", "email", "hash"} THEN Lower(value) ELSE value

IndicatorKey(r) == <<r.indicator_type, r.value, r.source>>

\* the upsert written as INSERT OR REPLACE: the stored row is deleted and the
\* new one inserted under a new id
UpsertIndicatorReplace(tbl, seq, ind) ==
    Append(SelectSeq(tbl, LAMBDA r : IndicatorKey(r) # IndicatorKey(ind)),
           [ind EXCEPT !.id = seq + 1])

\* upsert_indicator: INSERT ... ON CONFLICT(indicator_type, value, source) DO UPDATE.
\* The id column is AUTOINCREMENT: an upsert that updates uses an id up as well.
UpsertIndicator(tbl, seq, ind) ==
    IF \E i \in DOMAIN tbl : IndicatorKey(tbl[i]) = IndicatorKey(ind)
    THEN [i \in DOMAIN tbl |->
            IF IndicatorKey(tbl[i]) = IndicatorKey(ind)
            THEN [tbl[i] EXCEPT !.confidence = ind.confidence,
                                !.severity = ind.severity,
                                !.revoked = ind.revoked,
                                !.false_positive = ind.false_positive,
                                !.last_seen = ind.last_seen,
                                !.expires_at = ind.expires_at,
                                !.tags = ind.tags]
            ELSE tbl[i]]
    ELSE Append(tbl, [ind EXCEPT !.id = seq + 1])

\* upsert_indicator, lines 409-418: the id returned on a fresh connection
\* (lastrowid of an insert, else the SELECT by key)
IndicatorId(tbl, ind) ==
    LET S == {i \in DOMAIN tbl : IndicatorKey(tbl[i]) = IndicatorKey(ind)}
    IN IF S = {} THEN NoId ELSE tbl[CHOOSE i \in S : TRUE].id

\* fetch_indicator_matches: the rows in rowid order
RECURSIVE FetchFrom(_, _, _, _, _)
FetchFrom(tbl, i, indicator_type, value, now) ==
    IF i > Len(tbl) THEN <<>>
    ELSE LET r == tbl[i]
             rest == FetchFrom(tbl, i + 1, indicator_type, value, now)
         IN IF /\ r.indicator_type = indicator_type
               /\ r.value = value
               /\ r.revoked = 0
               /\ r.false_positive = 0
               /\ (r.expires_at = NoTime \/ r.expires_at > now)
            THEN <<r>> \o rest
            ELSE rest

FetchIndicatorMatches(tbl, indicator_type, value, now) ==
    FetchFrom(tbl, 1, indicator_type, value, now)

----------------------------------------------------------------------------
(* intelligence/scoring.py, intelligence/ioc_matching.py *)

\* score_detection without the lower clamp
ScoreDetectionNoFloor(base_score) ==
    LET confidence == Min(100, base_score)
    IN [confidence |-> confidence,
        severity |-> IF confidence >= 85 THEN "critical"
                     ELSE IF confidence >= 70 THEN "high"
                     ELSE IF confidence >= 40 THEN "medium"
                     ELSE "low"]

\* score_detection: (confidence, severity) of a rule's base score
ScoreDetection(base_score) ==
    LET confidence == Max(1, Min(100, base_score))
    IN [confidence |-> confidence,
        severity |-> IF confidence >= 85 THEN "critical"
                     ELSE IF confidence >= 70 THEN "high"
                     ELSE IF confidence >= 40 THEN "medium"
                     ELSE "low"]

SeverityScore(severity) ==
    CASE Lower(severity) = "low" -> 10
      [] Lower(severity) = "medium" -> 30
      [] Lower(severity) = "high" -> 60
      [] Lower(severity) = "critical" -> 90
      [] OTHER -> 20

\* The (base, clamped confidence) pairs whose product is a whole number that
\* base * (confidence / 100) misses from below in binary64 arithmetic: the
\* quotient confidence / 100 is rounded to the nearest double first, and the
\* product of 90 and the double nearest to 0.7 rounds to 62.99999999999999.
\* Every other pair of a base of SEVERITY_SCORES (or the default 20) and a
\* confidence of 0..100 gives a double whose integer part is the exact floor.
Binary64Short == {<<90, 70>>}

\* score_sighting: int(base * confidence_factor), the truncation of a float
ScoreSighting(confidence, severity) ==
    LET base == SeverityScore(severity)
        clamped == Max(0, Min(confidence, 100))
        exact == (base * clamped) \div 100
    IN IF <<base, clamped>> \in Binary64Short THEN exact - 1 ELSE exact

----------------------------------------------------------------------------
(* storage/database.py: incidents and cases *)

\* the severity guard that lets medium through as well
IsEscalatingMedium(severity) == Lower(severity) \in {"medium", "high", "critical"}

\* the severity guard of _ensure_case_for_incident dropped
IsEscalatingAny(severity) == TRUE

\* _ensure_case_for_incident, line 336: severity.lower() in {"high", "critical"}
IsEscalating(severity) == Lower(severity) \in {"high", "critical"}

HasKey(tbl, key) == \E i \in DOMAIN tbl : tbl[i].key = key

\* SELECT * FROM cases WHERE incident_key = ? ... fetchone(): the id, or NoId
SelectCase(tbl, key) ==
    IF \E i \in DOMAIN tbl : tbl[i].incident_key = key
    THEN (CHOOSE i \in DOMAIN tbl : tbl[i].incident_key = key
                                     /\ \A j \in DOMAIN tbl : tbl[j].incident_key = key => i <= j)
    ELSE NoId

CaseRow(tbl, key, severity, timestamp) ==
    [id |-> Len(tbl) + 1,
     incident_key |-> key,
     title |-> <<"Incident ", key>>,
     status |-> "open",
     owner |-> "",
     severity |-> severity,
     created_at |-> timestamp,
     updated_at |-> timestamp]

\* the INSERT into cases with UNIQUE(incident_key) not enforced
InsertCaseNoUnique(tbl, key, severity, timestamp) ==
    [rows |-> Append(tbl, CaseRow(tbl, key, severity, timestamp)),
     case_id |-> Len(tbl) + 1, error |-> ""]

\* _ensure_case_for_incident, lines 349-364: INSERT INTO cases under UNIQUE(incident_key)
InsertCase(tbl, key, severity, timestamp) ==
    IF \E i \in DOMAIN tbl : tbl[i].incident_key = key
    THEN [rows |-> tbl, case_id |-> NoId, error |-> "IntegrityError"]
    ELSE [rows |-> Append(tbl, CaseRow(tbl, key, severity, timestamp)),
          case_id |-> Len(tbl) + 1, error |-> ""]

\* the UPDATE of cases that also restamps created_at
UpdateCaseRestamp(tbl, key, severity, timestamp) ==
    [i \in DOMAIN tbl |->
        IF tbl[i].incident_key = key
        THEN [tbl[i] EXCEPT !.updated_at = timestamp, !.created_at = timestamp]
        ELSE tbl[i]]

\* _ensure_case_for_incident, lines 340-347: UPDATE cases SET updated_at, severity
UpdateCase(tbl, key, severity, timestamp) ==
    [i \in DOMAIN tbl |->
        IF tbl[i].incident_key = key
        THEN [tbl[i] EXCEPT !.updated_at = timestamp, !.severity = severity]
        ELSE tbl[i]]

\* _ensure_case_for_incident after its SELECT returned `seen` (a case id or NoId)
EnsureCaseWrite(tbl, key, severity, timestamp, seen) ==
    IF seen # NoId
    THEN [rows |-> UpdateCase(tbl, key, severity, timestamp), case_id |-> seen, error |-> ""]
    ELSE InsertCase(tbl, key, severity, timestamp)

IncidentRow(tbl, key, severity, timestamp, case_id) ==
    [id |-> Len(tbl) + 1,
     key |-> key,
     severity |-> severity,
     count |-> 1,
     first_seen |-> timestamp,
     last_seen |-> timestamp,
     case_id |-> case_id]

\* the UPDATE of incidents that forgets count = count + 1
WriteIncidentNoCount(tbl, key, severity, timestamp, case_id, existing) ==
    IF existing
    THEN [i \in DOMAIN tbl |->
            IF tbl[i].key = key
            THEN [tbl[i] EXCEPT !.last_seen = timestamp, !.severity = severity,
                                !.case_id = case_id]
            ELSE tbl[i]]
    ELSE Append(tbl, IncidentRow(tbl, key, severity, timestamp, case_id))

\* the UPDATE of incidents that also overwrites first_seen
WriteIncidentFirstSeen(tbl, key, severity, timestamp, case_id, existing) ==
    IF existing
    THEN [i \in DOMAIN tbl |->
            IF tbl[i].key = key
            THEN [tbl[i] EXCEPT !.count = @ + 1, !.first_seen = timestamp,
                                !.last_seen = timestamp, !.severity = severity,
                                !.case_id = case_id]
            ELSE tbl[i]]
    ELSE Append(tbl, IncidentRow(tbl, key, severity, timestamp, case_id))

\* update_incident, lines 313-329, after its SELECT found a row (existing) or none
WriteIncident(tbl, key, severity, timestamp, case_id, existing) ==
    IF existing
    THEN [i \in DOMAIN tbl |->
            IF tbl[i].key = key
            THEN [tbl[i] EXCEPT !.count = @ + 1, !.last_seen = timestamp,
                                !.severity = severity, !.case_id = case_id]
            ELSE tbl[i]]
    ELSE Append(tbl, IncidentRow(tbl, key, severity, timestamp, case_id))

\* the case statement committed and the incident statement left out
UpdateIncidentWriteCaseOnly(cs, incs, key, severity, timestamp, existing, seen) ==
    LET c == IF IsEscalating(severity)
             THEN EnsureCaseWrite(cs, key, severity, timestamp, seen)
             ELSE [rows |-> cs, case_id |-> NoId, error |-> ""]
    IN [cases |-> IF c.error # "" THEN cs ELSE c.rows, incidents |-> incs,
        error |-> c.error]

\* update_incident, lines 312-330, after its SELECT at line 311 (existing) and,
\* for a high or critical severity, the SELECT at line 338 (seen): the case
\* statement, the incident statement and the commit are one write transaction
UpdateIncidentWrite(cs, incs, key, severity, timestamp, existing, seen) ==
    LET c == IF IsEscalating(severity)
             THEN EnsureCaseWrite(cs, key, severity, timestamp, seen)
             ELSE [rows |-> cs, case_id |-> NoId, error |-> ""]
    IN IF c.error # ""
       THEN [cases |-> cs, incidents |-> incs, error |-> c.error]
       ELSE [cases |-> c.rows,
             incidents |-> WriteIncident(incs, key, severity, timestamp, c.case_id, existing),
             error |-> ""]

----------------------------------------------------------------------------
(* Inputs *)

Keys == {"mail:t1:a1:x.com:y.com:1.2.3.4", "dns:t1:a1:evil.com:10.0.0.5"}

\* the rule configuration load_rules returns
Rules ==
    << [name |-> "bulk_sender", type |-> "spam", base_score |-> 30],
       [name |-> "credential_lure", type |-> "phishing", base_score |-> 75],
       [name |-> "malware_beacon", type |-> "malware", base_score |-> 90] >>

\* the rules whose pattern matches an event, in configuration order
RuleHits == {<<>>, <<1>>, <<2>>, <<3>>, <<1, 2>>}

\* an indicator candidate of extract_event_indicators
RawCandidate ==
    [indicator_type |-> "domain", value |-> "evil.com",
     matched_field |-> "raw", matched_value |-> "evil.com"]

Candidates == {<<>>, <<RawCandidate>>}

\* the candidate of a dns event's normalized domain field; the same domain in
\* the raw text is a second candidate, and the field candidates come first
DomainCandidate ==
    [indicator_type |-> "domain", value |-> "evil.com",
     matched_field |-> "domain", matched_value |-> "evil.com"]

\* an event as ingest_event sees it after normalisation and extraction: its
\* correlation key, the rules that match it and its indicator candidates
EventInputs == [key : Keys, hits : RuleHits, iocs : Candidates]

\* IndicatorIn payloads
IndicatorInputs ==
    { [indicator_type |-> "Domain", value |-> "EVIL.com", source |-> "feed",
       confidence |-> 80, severity |-> "critical", revoked |-> FALSE,
       false_positive |-> FALSE, expires_at |-> NoTime, tags |-> <<"apt">>],
      [indicator_type |-> "domain", value |-> "evil.com", source |-> "feed",
       confidence |-> 50, severity |-> "medium", revoked |-> FALSE,
       false_positive |-> FALSE, expires_at |-> 2, tags |-> <<>>],
      [indicator_type |-> "domain", value |-> "evil.com", source |-> "osint",
       confidence |-> 100, severity |-> "High", revoked |-> FALSE,
       false_positive |-> FALSE, expires_at |-> NoTime, tags |-> <<"osint">>],
      [indicator_type |-> "domain", value |-> "evil.com", source |-> "feed",
       confidence |-> 80, severity |-> "critical", revoked |-> TRUE,
       false_positive |-> FALSE, expires_at |-> NoTime, tags |-> <<"retired">>] }

----------------------------------------------------------------------------
(* api/app.py: ingest_event, one step per store or cache operation *)

NoCand == [indicator_type |-> "", value |-> "", matched_field |-> "", matched_value |-> ""]
NoDet == [id |-> NoId, event_id |-> NoId, detection_type |-> "", severity |-> "",
          confidence |-> 0, rule |-> <<>>, created_at |-> NoTime]

IdleReq ==
    [event_id |-> NoId, key |-> "", now |-> NoTime, cands |-> <<>>, cand |-> NoCand,
     matches |-> <<>>, dets |-> <<>>, det |-> NoDet, existing |-> FALSE,
     seen |-> NoId, error |-> "", entry |-> NoEntry, expires_at |-> NoTime,
     fetched_at |-> NoTime]

\* evaluate_event: one detection per matching rule
EvaluateEvent(hits, event_id, now) ==
    [i \in DOMAIN hits |->
        LET rule == Rules[hits[i]]
            sc == ScoreDetection(rule.base_score)
        IN [id |-> NoId, event_id |-> event_id, detection_type |-> rule.type,
            severity |-> sc.severity, confidence |-> sc.confidence,
            rule |-> <<rule.name>>, created_at |-> now]]

\* the cti_match detection with the rule label left at the indicator's source
CtiDetectionNoType(match, event_id, now) ==
    [id |-> NoId, event_id |-> event_id, detection_type |-> "cti_match",
     severity |-> match.severity, confidence |-> match.confidence,
     rule |-> <<match.source>>, created_at |-> now]

\* ingest_event, lines 306-315: the detection of a recorded sighting
CtiDetection(match, event_id, now) ==
    [id |-> NoId, event_id |-> event_id, detection_type |-> "cti_match",
     severity |-> match.severity, confidence |-> match.confidence,
     rule |-> <<match.source, ":", match.indicator_type>>, created_at |-> now]

\* build_alert taking the event's id for the detection's
BuildAlertOfEvent(tbl, det) ==
    [id |-> Len(tbl) + 1, detection_id |-> det.event_id,
     title |-> <<det.detection_type, " detected">>,
     severity |-> det.severity, status |-> "open"]

\* build_alert, and the id insert_alert gives the row
BuildAlert(tbl, det) ==
    [id |-> Len(tbl) + 1, detection_id |-> det.id,
     title |-> <<det.detection_type, " detected">>,
     severity |-> det.severity, status |-> "open"]

\* the event stored before the rule configuration is loaded
LoadRulesAfterInsert(tbl, ev, readable) ==
    Append(tbl, [id |-> Len(tbl) + 1, key |-> ev.key])

\* ingest_event, lines 245-260: the events table after init_db, load_rules and,
\* unless load_rules raised (open or yaml.safe_load failing on the rule file),
\* insert_event
LoadRulesInsertEvent(tbl, ev, readable) ==
    IF readable THEN Append(tbl, [id |-> Len(tbl) + 1, key |-> ev.key]) ELSE tbl

\* where the handler goes once the matches of a candidate are exhausted
AfterMatches(r) ==
    IF r.cands # <<>> THEN "lookup"
    ELSE IF r.dets # <<>> THEN "persist" ELSE "done"

\* where the handler goes once a detection is processed
AfterDetection(r) == IF r.dets # <<>> THEN "persist" ELSE "done"

Init ==
    /\ events = <<>>
    /\ indicators = <<>>
    /\ indicatorSeq = 0
    /\ sightings = <<>>
    /\ sightingSeq = 0
    /\ detections = <<>>
    /\ alerts = <<>>
    /\ incidents = <<>>
    /\ cases = <<>>
    /\ cache = [k \in CacheKeys |-> NoEntry]
    /\ clock = 0
    /\ pc = [p \in Procs |-> "idle"]
    /\ req = [p \in Procs |-> IdleReq]
    /\ called = [k \in Keys |-> 0]
    /\ processed = {}
    /\ lastSet = [k \in CacheKeys |-> [at |-> NoTime, data |-> <<>>, read |-> NoTime]]
    /\ reference = {}
    /\ ncalls = 0
    /\ ret = [op |-> "none"]

\* time passes
Tick ==
    /\ clock < MaxTime
    /\ clock' = clock + 1
    /\ UNCHANGED <<storeVars, cache, procVars, histVars>>

\* ingest_event, lines 243-272: insert_event, evaluate_event, now_iso (the rule
\* detections' created_at and the request's now are one reading of the clock)
Start(p, ev) ==
    /\ pc[p] = "idle"
    /\ Len(events) < MaxEvents
    /\ LET event_id == Len(events) + 1
           r == [IdleReq EXCEPT !.event_id = event_id, !.key = ev.key, !.now = clock,
                                !.cands = ev.iocs,
                                !.dets = EvaluateEvent(ev.hits, event_id, clock)]
       IN /\ events' = LoadRulesInsertEvent(events, ev, TRUE)
          /\ req' = [req EXCEPT ![p] = r]
          /\ pc' = [pc EXCEPT ![p] = AfterMatches(r)]
    /\ UNCHANGED <<indicators, indicatorSeq, sightings, sightingSeq, detections, alerts,
                   incidents, cases, cache, clock, histVars>>

\* what ingest_event, lines 285-315, records for a candidate when the lookup is
\* answered by fetch_indicator_matches: one sighting and one detection per match
StoreAnswer(tbl, cand, event_id, now) ==
    LET rows == FetchIndicatorMatches(tbl, cand.indicator_type, cand.value, now)
    IN {[indicator_id |-> rows[i].id, event_id |-> event_id,
         matched_field |-> cand.matched_field, matched_value |-> cand.matched_value,
         timestamp |-> now,
         score_delta |-> ScoreSighting(rows[i].confidence, rows[i].severity),
         severity |-> rows[i].severity, confidence |-> rows[i].confidence,
         rule |-> <<rows[i].source, ":", rows[i].indicator_type>>] : i \in DOMAIN rows}

\* ingest_event, lines 245-247: load_rules raises and ends the request
LoadRulesFails(p, ev) ==
    /\ pc[p] = "idle"
    /\ Len(events) < MaxEvents
    /\ events' = LoadRulesInsertEvent(events, ev, FALSE)
    /\ req' = [req EXCEPT ![p] = [IdleReq EXCEPT !.key = ev.key, !.error = "RulesError"]]
    /\ pc' = [pc EXCEPT ![p] = "failed"]
    /\ UNCHANGED <<indicators, indicatorSeq, sightings, sightingSeq, detections, alerts,
                   incidents, cases, cache, clock, histVars>>

\* where a rule whose pattern is not a regular expression may stand in the
\* configuration: before rule `bad` of Rules
InvalidAt == {1, 3}

\* the hits among the rules that stand before position bad
HitsBefore(hits, bad) == SelectSeq(hits, LAMBDA h : h < bad)

\* ingest_event, lines 247-271, under a configuration that holds a rule with an
\* invalid pattern: load_rules returns it (yaml.safe_load compiles no pattern),
\* insert_event stores the event, and evaluate_event works through the rules
\* that stand before the invalid one
StartInvalidPattern(p, ev, bad) ==
    /\ pc[p] = "idle"
    /\ Len(events) < MaxEvents
    /\ LET event_id == Len(events) + 1
       IN /\ events' = LoadRulesInsertEvent(events, ev, TRUE)
          /\ req' = [req EXCEPT ![p] =
                        [IdleReq EXCEPT !.event_id = event_id, !.key = ev.key,
                                        !.dets = EvaluateEvent(HitsBefore(ev.hits, bad),
                                                               event_id, clock)]]
    /\ pc' = [pc EXCEPT ![p] = "evaluate"]
    /\ UNCHANGED <<indicators, indicatorSeq, sightings, sightingSeq, detections, alerts,
                   incidents, cases, cache, clock, histVars>>

\* evaluate_event, line 26: re.search compiles the invalid pattern and raises
\* re.error, which ends the request; the detections built so far are dropped
EvaluateEventFails(p) ==
    /\ pc[p] = "evaluate"
    /\ req' = [req EXCEPT ![p].error = "re.error"]
    /\ pc' = [pc EXCEPT ![p] = "failed"]
    /\ UNCHANGED <<storeVars, cache, clock, histVars>>

\* ingest_event, lines 273-275: the next candidate and HOT_INDICATOR_CACHE.get
Lookup(p) ==
    /\ pc[p] = "lookup"
    /\ LET cand == Head(req[p].cands)
           g == CacheGet(cache, <<cand.indicator_type, cand.value>>, clock)
           r == [req[p] EXCEPT !.cand = cand, !.cands = Tail(@),
                               !.matches = g.result.data]
       IN /\ cache' = g.store
          /\ req' = [req EXCEPT ![p] = r]
          /\ pc' = [pc EXCEPT ![p] =
                       IF ~g.result.hit THEN "fetch"
                       ELSE IF r.matches # <<>> THEN "sight" ELSE AfterMatches(r)]
          /\ reference' =
                reference \cup StoreAnswer(indicators, cand, req[p].event_id, req[p].now)
    /\ UNCHANGED <<storeVars, clock, called, processed, lastSet, ncalls, ret>>

\* ingest_event, lines 276-282: fetch_indicator_matches as of the request's now
Fetch(p) ==
    /\ pc[p] = "fetch"
    /\ req' = [req EXCEPT ![p].matches =
                  FetchIndicatorMatches(indicators, req[p].cand.indicator_type,
                                        req[p].cand.value, req[p].now),
                          ![p].fetched_at = clock]
    /\ pc' = [pc EXCEPT ![p] = "cacheset"]
    /\ UNCHANGED <<storeVars, cache, clock, histVars>>

\* ingest_event, lines 283-284: HOT_INDICATOR_CACHE.set
StoreInCache(p) ==
    /\ pc[p] = "cacheset"
    /\ LET k == <<req[p].cand.indicator_type, req[p].cand.value>>
       IN /\ cache' = CacheSet(cache, k, req[p].matches, clock)
          /\ lastSet' = [lastSet EXCEPT ![k] = [at |-> clock, data |-> req[p].matches,
                                             read |-> req[p].fetched_at]]
    /\ pc' = [pc EXCEPT ![p] = IF req[p].matches # <<>> THEN "sight" ELSE AfterMatches(req[p])]
    /\ UNCHANGED <<storeVars, clock, req, called, processed, ncalls, ret, reference>>

\* The cache has no lock: with concurrent handlers the statements of get and
\* set interleave, each dict operation being one step.
\* HotIndicatorCache.get, lines 13-16: read the entry; no entry is a miss
GetRead(p) ==
    /\ pc[p] = "lookup"
    /\ LET cand == Head(req[p].cands)
           entry == cache[<<cand.indicator_type, cand.value>>]
       IN /\ req' = [req EXCEPT ![p].cand = cand, ![p].cands = Tail(@),
                                 ![p].entry = entry, ![p].matches = <<>>]
          /\ pc' = [pc EXCEPT ![p] = IF entry.present THEN "get_check" ELSE "fetch"]
    /\ UNCHANGED <<storeVars, cache, clock, histVars>>

\* HotIndicatorCache.get, lines 17-21: compare the clock with the expiry read
GetCheck(p) ==
    /\ pc[p] = "get_check"
    /\ IF clock >= req[p].entry.expires_at
       THEN /\ pc' = [pc EXCEPT ![p] = "get_pop"]
            /\ req' = req
       ELSE LET r == [req[p] EXCEPT !.matches = req[p].entry.data]
            IN /\ req' = [req EXCEPT ![p] = r]
               /\ pc' = [pc EXCEPT ![p] =
                            IF r.matches # <<>> THEN "sight" ELSE AfterMatches(r)]
    /\ UNCHANGED <<storeVars, cache, clock, histVars>>

\* HotIndicatorCache.get, lines 19-20: pop the key, whatever it holds by now
GetPop(p) ==
    /\ pc[p] = "get_pop"
    /\ cache' = [cache EXCEPT ![<<req[p].cand.indicator_type, req[p].cand.value>>] = NoEntry]
    /\ pc' = [pc EXCEPT ![p] = "fetch"]
    /\ UNCHANGED <<storeVars, clock, req, histVars>>

\* HotIndicatorCache.set, line 24: the expiry of the new entry
SetStamp(p) ==
    /\ pc[p] = "cacheset"
    /\ req' = [req EXCEPT ![p].expires_at = clock + CacheTtl]
    /\ pc' = [pc EXCEPT ![p] = "set_store"]
    /\ UNCHANGED <<storeVars, cache, clock, histVars>>

\* HotIndicatorCache.set, line 25: store the entry
SetStore(p) ==
    /\ pc[p] = "set_store"
    /\ LET k == <<req[p].cand.indicator_type, req[p].cand.value>>
       IN /\ cache' = [cache EXCEPT ![k] = [present |-> TRUE,
                                            expires_at |-> req[p].expires_at,
                                            data |-> req[p].matches]]
          /\ lastSet' = [lastSet EXCEPT ![k] = [at |-> req[p].expires_at - CacheTtl,
                                                data |-> req[p].matches,
                                                read |-> req[p].fetched_at]]
    /\ pc' = [pc EXCEPT ![p] = IF req[p].matches # <<>> THEN "sight" ELSE AfterMatches(req[p])]
    /\ UNCHANGED <<storeVars, clock, req, called, processed, ncalls, ret, reference>>

\* ingest_event, lines 285-315: insert_sighting for one match and its detection
RecordSighting(p) ==
    /\ pc[p] = "sight"
    /\ LET match == Head(req[p].matches)
           ins == InsertSighting(sightings, sightingSeq,
                     [indicator_id |-> match.id, event_id |-> req[p].event_id,
                      matched_field |-> req[p].cand.matched_field,
                      matched_value |-> req[p].cand.matched_value,
                      timestamp |-> req[p].now,
                      score_delta |-> ScoreSighting(match.confidence, match.severity)])
           det == CtiDetection(match, req[p].event_id, req[p].now)
           r == [req[p] EXCEPT !.matches = Tail(@),
                               !.dets = IF ins.id # NoId THEN Append(@, det) ELSE @]
       IN /\ sightings' = ins.rows
          /\ sightingSeq' = ins.seq
          /\ req' = [req EXCEPT ![p] = r]
          /\ pc' = [pc EXCEPT ![p] = IF r.matches # <<>> THEN "sight" ELSE AfterMatches(r)]
    /\ UNCHANGED <<events, indicators, indicatorSeq, detections, alerts, incidents, cases,
                   cache, clock, histVars>>

\* ingest_event, lines 321-323: insert_detection (its own commit)
Persist(p) ==
    /\ pc[p] = "persist"
    /\ LET det == [Head(req[p].dets) EXCEPT !.id = Len(detections) + 1]
       IN /\ detections' = Append(detections, det)
          /\ req' = [req EXCEPT ![p].det = det, ![p].dets = Tail(@)]
    /\ pc' = [pc EXCEPT ![p] = "alert"]
    /\ UNCHANGED <<events, indicators, indicatorSeq, sightings, sightingSeq, alerts,
                   incidents, cases, cache, clock, histVars>>

\* ingest_event, lines 325-329: build_alert, insert_alert (its own commit)
InsertAlert(p) ==
    /\ pc[p] = "alert"
    /\ alerts' = Append(alerts, BuildAlert(alerts, req[p].det))
    /\ pc' = [pc EXCEPT ![p] = "inc_select"]
    /\ UNCHANGED <<events, indicators, indicatorSeq, sightings, sightingSeq, detections,
                   incidents, cases, cache, clock, req, histVars>>

\* update_incident, line 311 (and line 336 when no case is asked for)
SelectIncident(p) ==
    /\ pc[p] = "inc_select"
    /\ req' = [req EXCEPT ![p].existing = HasKey(incidents, req[p].key), ![p].seen = NoId]
    /\ processed' = processed \cup {<<req[p].key, req[p].det.severity>>}
    /\ pc' = [pc EXCEPT ![p] = IF IsEscalating(req[p].det.severity)
                                THEN "case_select" ELSE "inc_write"]
    /\ UNCHANGED <<storeVars, cache, clock, called, lastSet, ncalls, ret, reference>>

\* _ensure_case_for_incident, line 338
SelectCaseRow(p) ==
    /\ pc[p] = "case_select"
    /\ req' = [req EXCEPT ![p].seen = SelectCase(cases, req[p].key)]
    /\ pc' = [pc EXCEPT ![p] = "inc_write"]
    /\ UNCHANGED <<storeVars, cache, clock, histVars>>

\* update_incident, lines 312-330: the write transaction, or the IntegrityError
\* of the INSERT into cases
WriteUpdate(p) ==
    /\ pc[p] = "inc_write"
    /\ LET w == UpdateIncidentWrite(cases, incidents, req[p].key, req[p].det.severity,
                                    req[p].det.created_at, req[p].existing, req[p].seen)
       IN /\ cases' = w.cases
          /\ incidents' = w.incidents
          /\ IF w.error # ""
             THEN /\ req' = [req EXCEPT ![p].error = w.error]
                  /\ pc' = [pc EXCEPT ![p] = "failed"]
                  /\ UNCHANGED called
             ELSE /\ req' = req
                  /\ called' = [called EXCEPT ![req[p].key] = @ + 1]
                  /\ pc' = [pc EXCEPT ![p] =
                               IF req[p].det.severity \in {"critical", "high"}
                               THEN "email" ELSE AfterDetection(req[p])]
    /\ UNCHANGED <<events, indicators, indicatorSeq, sightings, sightingSeq, detections,
                   alerts, cache, clock, processed, lastSet, ncalls, ret, reference>>

\* ingest_event, lines 334-335: send_email_alert delivers
SendEmail(p) ==
    /\ pc[p] = "email"
    /\ pc' = [pc EXCEPT ![p] = AfterDetection(req[p])]
    /\ UNCHANGED <<storeVars, cache, clock, req, histVars>>

\* ingest_event, lines 334-335: send_email_alert raises (smtplib cannot deliver)
SendEmailFails(p) ==
    /\ pc[p] = "email"
    /\ req' = [req EXCEPT ![p].error = "SMTPError"]
    /\ pc' = [pc EXCEPT ![p] = "failed"]
    /\ UNCHANGED <<storeVars, cache, clock, histVars>>

\* the handler returns its response, or its exception ends the request
Return(p) ==
    /\ pc[p] \in {"done", "failed"}
    /\ pc' = [pc EXCEPT ![p] = "idle"]
    /\ req' = [req EXCEPT ![p] = IdleReq]
    /\ UNCHANGED <<storeVars, cache, clock, histVars>>

\* the handler's response, or its error, as the caller receives it
Respond(p) ==
    /\ pc[p] \in {"done", "failed"}
    /\ ret' = [op |-> "ingest_event", key |-> req[p].key, event_id |-> req[p].event_id,
               error |-> req[p].error]
    /\ pc' = [pc EXCEPT ![p] = "idle"]
    /\ req' = [req EXCEPT ![p] = IdleReq]
    /\ UNCHANGED <<storeVars, cache, clock, called, processed, lastSet, reference, ncalls>>

\* ingest_indicator: normalise the payload and upsert_indicator
IngestIndicator(inp) ==
    /\ LET t == Lower(inp.indicator_type)
           payload == [id |-> NoId, indicator_type |-> t,
                       value |-> NormalizeIndicatorValue(t, inp.value),
                       source |-> inp.source, confidence |-> inp.confidence,
                       severity |-> inp.severity,
                       revoked |-> IF inp.revoked THEN 1 ELSE 0,
                       false_positive |-> IF inp.false_positive THEN 1 ELSE 0,
                       first_seen |-> clock, last_seen |-> clock,
                       expires_at |-> inp.expires_at, tags |-> inp.tags]
           rows == UpsertIndicator(indicators, indicatorSeq, payload)
       IN /\ indicators' = rows
          /\ ret' = [op |-> "ingest_indicator", arg |-> inp, id |-> IndicatorId(rows, payload)]
    /\ indicatorSeq' = indicatorSeq + 1
    /\ UNCHANGED <<events, sightings, sightingSeq, detections, alerts, incidents, cases,
                   cache, clock, procVars, called, processed, lastSet, ncalls, reference>>

----------------------------------------------------------------------------
(* Specifications *)

\* events that carry no indicator candidate: only the rule engine detects
RuleEvents == {ev \in EventInputs : ev.iocs = <<>>}

\* Concurrent requests on the escalation path: FastAPI runs the sync handlers
\* on a thread pool, each with its own connection, so the statements of two
\* ingest_event calls interleave.
Next ==
    \/ Tick
    \/ \E p \in Procs :
        \/ \E ev \in RuleEvents : Start(p, ev)
        \/ Persist(p)
        \/ InsertAlert(p)
        \/ SelectIncident(p)
        \/ SelectCaseRow(p)
        \/ WriteUpdate(p)
        \/ SendEmail(p)
        \/ SendEmailFails(p)
        \/ Return(p)

Spec == Init /\ [][Next]_vars

\* A sequential history: one handler at a time runs the whole pipeline, and
\* indicators are ingested between requests.
Handler == 1

NextSeq ==
    \/ Tick
    \/ \E inp \in IndicatorInputs :
          /\ pc[Handler] = "idle"
          /\ indicatorSeq < MaxIndicators
          /\ IngestIndicator(inp)
    \/ \E ev \in EventInputs : Start(Handler, ev)
    \/ Lookup(Handler)
    \/ Fetch(Handler)
    \/ StoreInCache(Handler)
    \/ RecordSighting(Handler)
    \/ Persist(Handler)
    \/ InsertAlert(Handler)
    \/ SelectIncident(Handler)
    \/ SelectCaseRow(Handler)
    \/ WriteUpdate(Handler)
    \/ SendEmail(Handler)
    \/ SendEmailFails(Handler)
    \/ Return(Handler)

SpecSeq == Init /\ [][NextSeq]_vars

\* two payloads a caller submits, and submits again when the request failed:
\* each has its own correlation key
RetryEvents ==
    { [key |-> "mail:t1:a1:x.com:y.com:1.2.3.4", hits |-> <<2>>, iocs |-> <<RawCandidate>>],
      [key |-> "dns:t1:a1:evil.com:10.0.0.5", hits |-> <<>>, iocs |-> <<RawCandidate>>] }

\* A sequential history with the caller in it: requests may fail, and the
\* caller sees each response before it submits the next request.
NextRetry ==
    \/ Tick
    \/ \E inp \in IndicatorInputs :
          /\ pc[Handler] = "idle"
          /\ indicatorSeq < MaxIndicators
          /\ IngestIndicator(inp)
    \/ \E ev \in RetryEvents : Start(Handler, ev)
    \/ \E ev \in RetryEvents : LoadRulesFails(Handler, ev)
    \/ \E ev \in RetryEvents, bad \in InvalidAt : StartInvalidPattern(Handler, ev, bad)
    \/ EvaluateEventFails(Handler)
    \/ Lookup(Handler)
    \/ Fetch(Handler)
    \/ StoreInCache(Handler)
    \/ RecordSighting(Handler)
    \/ Persist(Handler)
    \/ InsertAlert(Handler)
    \/ SelectIncident(Handler)
    \/ SelectCaseRow(Handler)
    \/ WriteUpdate(Handler)
    \/ SendEmail(Handler)
    \/ SendEmailFails(Handler)
    \/ Respond(Handler)

SpecRetry == Init /\ [][NextRetry]_vars

\* dns events that name a domain in the query field, in the raw text or in both
LookupEvents ==
    {[key |-> "dns:t1:a1:evil.com:10.0.0.5", hits |-> <<>>, iocs |-> c] :
        c \in {<<RawCandidate>>, <<DomainCandidate, RawCandidate>>}}

\* Concurrent requests on the lookup path, the store holding no indicator
NextLookup ==
    \/ Tick
    \/ \E p \in Procs :
        \/ \E ev \in LookupEvents : Start(p, ev)
        \/ GetRead(p)
        \/ GetCheck(p)
        \/ GetPop(p)
        \/ Fetch(p)
        \/ SetStamp(p)
        \/ SetStore(p)
        \/ Return(p)

SpecLookup == Init /\ [][NextLookup]_vars

\* One request at a time on the lookup path while the feed ingests indicators
\* whenever it likes: between a request's get, its fetch and its set as well.
NextStale ==
    \/ Tick
    \/ \E inp \in IndicatorInputs : indicatorSeq < MaxIndicators /\ IngestIndicator(inp)
    \/ \E ev \in LookupEvents : Start(Handler, ev)
    \/ Lookup(Handler)
    \/ Fetch(Handler)
    \/ StoreInCache(Handler)
    \/ RecordSighting(Handler)
    \/ Persist(Handler)
    \/ InsertAlert(Handler)
    \/ SelectIncident(Handler)
    \/ SelectCaseRow(Handler)
    \/ WriteUpdate(Handler)
    \/ SendEmail(Handler)
    \/ Return(Handler)

SpecStale == Init /\ [][NextStale]_vars

----------------------------------------------------------------------------
(* Direct calls of the store and of the cache *)

\* the sightings a caller may hand to insert_sighting
SightingInputs ==
    [indicator_id : 1..2, event_id : 1..2, matched_field : {"raw", "domain"},
     matched_value : {"evil.com"}, timestamp : {0}, score_delta : {10, 72}]

InsertSightingCall(s) ==
    /\ ncalls < MaxCalls
    /\ LET ins == InsertSighting(sightings, sightingSeq, s)
       IN /\ sightings' = ins.rows
          /\ sightingSeq' = ins.seq
          /\ ret' = [op |-> "insert_sighting", arg |-> s, id |-> ins.id]
    /\ ncalls' = ncalls + 1
    /\ UNCHANGED <<events, indicators, indicatorSeq, detections, alerts, incidents, cases,
                   cache, clock, procVars, called, processed, lastSet, reference>>

NextStore == \E s \in SightingInputs : InsertSightingCall(s)

SpecStore == Init /\ [][NextStore]_vars

\* ingest_indicator called again and again, as a feed does
NextIndicators ==
    \/ Tick
    \/ \E inp \in IndicatorInputs : indicatorSeq < MaxCalls /\ IngestIndicator(inp)

SpecIndicators == Init /\ [][NextIndicators]_vars

\* match lists a caller may cache
MatchRow ==
    [id |-> 1, indicator_type |-> "domain", value |-> "evil.com", source |-> "feed",
     confidence |-> 80, severity |-> "critical", revoked |-> 0, false_positive |-> 0,
     first_seen |-> 0, last_seen |-> 0, expires_at |-> NoTime, tags |-> <<"apt">>]

CacheData == {<<>>, <<MatchRow>>}

\* the clock of the cache specification runs past the expiry of an entry set late
CacheHorizon == CacheTtl + 2

TickCache ==
    /\ clock < CacheHorizon
    /\ clock' = clock + 1
    /\ UNCHANGED <<storeVars, cache, procVars, histVars>>

CacheSetCall(k, data) ==
    /\ ncalls < MaxCalls
    /\ cache' = CacheSet(cache, k, data, clock)
    /\ lastSet' = [lastSet EXCEPT ![k] = [at |-> clock, data |-> data, read |-> clock]]
    /\ ret' = [op |-> "set", key |-> k]
    /\ ncalls' = ncalls + 1
    /\ UNCHANGED <<storeVars, clock, procVars, called, processed, reference>>

CacheGetCall(k) ==
    /\ ncalls < MaxCalls
    /\ LET g == CacheGet(cache, k, clock)
       IN /\ cache' = g.store
          /\ ret' = [op |-> "get", key |-> k, result |-> g.result]
    /\ ncalls' = ncalls + 1
    /\ UNCHANGED <<storeVars, clock, procVars, called, processed, lastSet, reference>>

NextCache ==
    \/ TickCache
    \/ \E k \in CacheKeys, data \in CacheData : CacheSetCall(k, data)
    \/ \E k \in CacheKeys : CacheGetCall(k)

SpecCache == Init /\ [][NextCache]_vars

----------------------------------------------------------------------------
(* Text.  A Python string is the sequence of its tokens: an address is      *)
(* <<"a", "@", "x.com">> and a URL <<"http", "://", "evil.com", "/p">>.     *)
(* The empty sequence stands for None and for "", which every `or`, `not`   *)
(* and `if value` of the normalizer and of the key builder treats alike.   *)

Absent == <<>>
Truthy(s) == s # <<>>

\* Python's `a or b`
Or(a, b) == IF Truthy(a) THEN a ELSE b

\* the string a token sequence spells
RECURSIVE Join(_)
Join(s) == IF s = <<>> THEN "" ELSE Head(s) \o Join(Tail(s))

\* str.lower() on a token sequence
LowerSeq(s) == [i \in DOMAIN s |-> Lower(s[i])]

\* the first position of s that holds a token of set t, or 0
IndexOf(s, t) ==
    IF \E i \in DOMAIN s : s[i] \in t
    THEN CHOOSE i \in DOMAIN s : s[i] \in t /\ \A j \in 1..(i - 1) : s[j] \notin t
    ELSE 0

\* the last position of s that holds a token of set t, or 0
LastIndexOf(s, t) ==
    IF \E i \in DOMAIN s : s[i] \in t
    THEN CHOOSE i \in DOMAIN s : s[i] \in t /\ \A j \in (i + 1)..Len(s) : s[j] \notin t
    ELSE 0

\* dict.get(key) on a dict with string keys
Get(d, k) == IF k \in DOMAIN d THEN d[k] ELSE Absent

----------------------------------------------------------------------------
(* intelligence/ioc_normalization.py: normalize_event_fields *)

\* the keys of `fields`, in the order the dict literal lists them
FieldOrder ==
    <<"src_ip", "dst_ip", "domain", "helo", "mail_from", "rcpt_to", "url",
      "attachment_hash">>

\* the final comprehension of normalize_event_fields: the items with a truthy value
KeepTruthy(fields) == [k \in {f \in DOMAIN fields : Truthy(fields[f])} |-> fields[k]]

\* the destination fallbacks of lines 65-69 applied whatever the source is
FallbacksAnySource(event, fields) ==
    LET withDomain ==
            IF ~Truthy(fields.domain)
            THEN [fields EXCEPT !.domain = event.destination] ELSE fields
    IN IF Truthy(event.destination) /\ ~Truthy(withDomain.rcpt_to)
       THEN [withDomain EXCEPT !.rcpt_to = event.destination] ELSE withDomain

\* lines 65-69: the destination stands in for the dns domain and the mail recipient
Fallbacks(event, fields) ==
    LET withDomain ==
            IF event.source = <<"dns">> /\ ~Truthy(fields.domain)
            THEN [fields EXCEPT !.domain = event.destination] ELSE fields
    IN IF event.source = <<"mail">> /\ Truthy(event.destination)
          /\ ~Truthy(withDomain.rcpt_to)
       THEN [withDomain EXCEPT !.rcpt_to = event.destination] ELSE withDomain

NormalizeEventFields(event, metadata) ==
    LET fields ==
            [src_ip |-> Or(event.source_ip, metadata.client_ip),
             dst_ip |-> Or(metadata.destination_ip, metadata.dst_ip),
             domain |-> IF event.source = <<"dns">> THEN metadata.domain ELSE Absent,
             helo |-> metadata.helo,
             mail_from |-> Or(metadata.sender, metadata.mail_from),
             rcpt_to |-> Or(metadata.recipient, metadata.rcpt_to),
             url |-> metadata.url,
             attachment_hash |-> metadata.attachment_hash]
    IN KeepTruthy(Fallbacks(event, fields))

----------------------------------------------------------------------------
(* intelligence/correlation.py *)

\* _email_domain without the .lower()
EmailDomainAsWritten(address) ==
    LET at == IndexOf(address, {"@"})
    IN IF ~Truthy(address) \/ at = 0 THEN Absent
       ELSE SubSeq(address, at + 1, Len(address))

\* _email_domain: None without an "@", else what follows the first "@", lower-cased
EmailDomain(address) ==
    LET at == IndexOf(address, {"@"})
    IN IF ~Truthy(address) \/ at = 0 THEN Absent
       ELSE LowerSeq(SubSeq(address, at + 1, Len(address)))

\* the tokens that end the network location of a URL: a path, a query, a fragment
PathTokens == {"/p", "/u", "/x", "?q=1", "#top"}

\* urlparse(url).hostname: the network location is what stands between "://"
\* and the path; the host is what follows its last "@", up to a ":", lower-cased
UrlHostname(url) ==
    LET sep == IndexOf(url, {"://"})
        rest == SubSeq(url, sep + 1, Len(url))
        path == IndexOf(rest, PathTokens)
        netloc == IF path = 0 THEN rest ELSE SubSeq(rest, 1, path - 1)
        hostport == SubSeq(netloc, LastIndexOf(netloc, {"@"}) + 1, Len(netloc))
        colon == IndexOf(hostport, {":"})
        host == IF colon = 0 THEN hostport ELSE SubSeq(hostport, 1, colon - 1)
    IN IF sep # 2 THEN Absent ELSE LowerSeq(host)

\* _url_domain
UrlDomain(url) == IF ~Truthy(url) THEN Absent ELSE UrlHostname(url)

\* the key of the third branch with the URL hostname consulted last
OtherKeyHostLast(event, nf, tenant_id, asset_id, source_ip, destination) ==
    LET primary == Or(Or(Or(Get(nf, "domain"), Get(nf, "url")), destination),
                      UrlDomain(event.url))
    IN Join(event.source \o <<":">> \o tenant_id \o <<":">> \o asset_id \o <<":">>
            \o primary \o <<":">> \o source_ip)

\* lines 42-44: every source but mail and dns
OtherKey(event, nf, tenant_id, asset_id, source_ip, destination) ==
    LET url_domain == Or(UrlDomain(event.url), Get(nf, "domain"))
        primary == Or(Or(url_domain, Get(nf, "url")), destination)
    IN Join(event.source \o <<":">> \o tenant_id \o <<":">> \o asset_id \o <<":">>
            \o primary \o <<":">> \o source_ip)

\* the dns key with the destination consulted before the query field
DnsKeyDestinationFirst(event, nf, tenant_id, asset_id, source_ip, destination) ==
    LET query == Or(Or(event.destination, event.dns_query), Or(Get(nf, "domain"), destination))
        client_ip == Or(Or(event.client_ip, Get(nf, "src_ip")), source_ip)
    IN Join(<<"dns", ":">> \o tenant_id \o <<":">> \o asset_id \o <<":">>
            \o query \o <<":">> \o client_ip)

\* lines 37-40: a dns event
DnsKey(event, nf, tenant_id, asset_id, source_ip, destination) ==
    LET query == Or(Or(event.dns_query, Get(nf, "domain")), destination)
        client_ip == Or(Or(event.client_ip, Get(nf, "src_ip")), source_ip)
    IN Join(<<"dns", ":">> \o tenant_id \o <<":">> \o asset_id \o <<":">>
            \o query \o <<":">> \o client_ip)

\* lines 28-35: a mail event
MailKey(event, nf, tenant_id, asset_id, source_ip) ==
    LET sender_domain ==
            Or(EmailDomain(event.smtp_mail_from), EmailDomain(Get(nf, "mail_from")))
        rcpt_domain ==
            Or(EmailDomain(event.smtp_rcpt_to), EmailDomain(Get(nf, "rcpt_to")))
    IN Join(<<"mail", ":">> \o tenant_id \o <<":">> \o asset_id \o <<":">>
            \o Or(sender_domain, <<"sender-unknown">>) \o <<":">>
            \o Or(rcpt_domain, <<"rcpt-unknown">>) \o <<":">> \o source_ip)

\* build_incident_key
BuildIncidentKey(event, nf) ==
    LET tenant_id == Or(event.tenant_id, <<"tenant-unknown">>)
        asset_id == Or(event.asset_id, <<"asset-unknown">>)
        source_ip == Or(Or(event.source_ip, Get(nf, "src_ip")), <<"ip-unknown">>)
        destination == Or(event.destination, <<"dest-unknown">>)
    IN IF event.source = <<"mail">>
       THEN MailKey(event, nf, tenant_id, asset_id, source_ip)
       ELSE IF event.source = <<"dns">>
       THEN DnsKey(event, nf, tenant_id, asset_id, source_ip, destination)
       ELSE OtherKey(event, nf, tenant_id, asset_id, source_ip, destination)

----------------------------------------------------------------------------
(* intelligence/ioc_normalization.py: extract_event_indicators.  The raw     *)
(* text of an event is the sequence of its words, the blanks between them   *)
(* left out; the patterns are read on the tokens of a word.                 *)

\* tokens that ipaddress.ip_address accepts
IpTokens == {"1.2.3.4", "9.9.9.9", "10.0.0.5", "8.8.8.8"}

\* tokens of the shape label.label...tld that DOMAIN_RE and the domain part of
\* EMAIL_RE match
DomainTokens ==
    {"x.com", "X.COM", "y.com", "z.com", "w.com", "evil.com", "Evil.com", "EVIL.com",
     "bad.tld", "m.com", "meta.io", "gw.local"}

\* tokens of 32 hexadecimal digits
HashTokens == {"d41d8cd98f00b204e9800998ecf8427e", "D41D8CD98F00B204E9800998ECF8427E"}

\* tokens that the local part of EMAIL_RE matches
LocalTokens == {"a", "A", "b", "c", "d", "q", "r", "phish", "User", "postmaster"}

\* what DOMAIN_RE.findall returns for a match: the pattern has one capturing
\* group, ([a-zA-Z0-9\-]+\.), so findall gives the group's last repetition,
\* the label before the top-level domain with its dot, not the whole match
DomainGroup(token) ==
    CASE token \in {"evil.com"} -> "evil."
      [] token \in {"Evil.com"} -> "Evil."
      [] token = "bad.tld" -> "bad."
      [] token = "gw.local" -> "gw."
      [] token = "meta.io" -> "meta."
      [] OTHER -> "."

\* str.strip() on a token sequence
RECURSIVE Strip(_)
Strip(s) ==
    IF s # <<>> /\ Head(s) = " " THEN Strip(Tail(s))
    ELSE IF s # <<>> /\ s[Len(s)] = " " THEN Strip(SubSeq(s, 1, Len(s) - 1))
    ELSE s

\* normalize_indicator_value on a token sequence
NormalizeIndicatorText(indicator_type, value) ==
    IF indicator_type \in {"domain", "email", "hash"}
    THEN LowerSeq(Strip(value)) ELSE Strip(value)

IsEmail(value) ==
    Len(value) = 3 /\ value[1] \in LocalTokens /\ value[2] = "@"
    /\ value[3] \in DomainTokens

\* URL_RE: http:// or https:// followed by one character at least, no blank
IsUrl(value) ==
    Len(value) >= 3 /\ value[1] \in {"http", "https"} /\ value[2] = "://"
    /\ \A i \in DOMAIN value : value[i] # " "

\* guess_indicator_type: the first of ip, email, url, hash, domain that the
\* whole value matches; "" for None
GuessIndicatorType(value) ==
    IF Len(value) = 1 /\ value[1] \in IpTokens THEN "ip"
    ELSE IF IsEmail(value) THEN "email"
    ELSE IF IsUrl(value) THEN "url"
    ELSE IF Len(value) = 1 /\ value[1] \in HashTokens THEN "hash"
    ELSE IF Len(value) = 1 /\ value[1] \in DomainTokens THEN "domain"
    ELSE ""

\* lines 100-112: the candidates of the canonical fields, in the order of the dict
RECURSIVE FieldCandidates(_, _)
FieldCandidates(nf, i) ==
    IF i > Len(FieldOrder) THEN <<>>
    ELSE LET field == FieldOrder[i]
             value == Get(nf, field)
             indicator_type == GuessIndicatorType(value)
         IN (IF Truthy(value) /\ indicator_type # ""
             THEN << [indicator_type |-> indicator_type,
                      value |-> Join(NormalizeIndicatorText(indicator_type, value)),
                      matched_field |-> field, matched_value |-> Join(value)] >>
             ELSE <<>>)
            \o FieldCandidates(nf, i + 1)

\* a candidate of the raw text (lines 115-118): matched_value is the value
RawIndicator(indicator_type, value) ==
    LET normalized == Join(NormalizeIndicatorText(indicator_type, value))
    IN [indicator_type |-> indicator_type, value |-> normalized,
        matched_field |-> "raw", matched_value |-> normalized]

\* the concatenation of Op(w) over the words of a text
RECURSIVE FlatMap(_, _)
FlatMap(Op(_), text) ==
    IF text = <<>> THEN <<>> ELSE Op(Head(text)) \o FlatMap(Op, Tail(text))

\* IPV4_RE.findall filtered by _valid_ip, in one word
RECURSIVE Ipv4In(_)
Ipv4In(w) ==
    IF w = <<>> THEN <<>>
    ELSE (IF Head(w) \in IpTokens THEN <<RawIndicator("ip", <<Head(w)>>)>> ELSE <<>>)
         \o Ipv4In(Tail(w))

\* EMAIL_RE.findall in one word: local part, "@", domain, wherever they stand
RECURSIVE EmailsIn(_)
EmailsIn(w) ==
    IF Len(w) < 3 THEN <<>>
    ELSE IF IsEmail(SubSeq(w, 1, 3))
    THEN <<RawIndicator("email", SubSeq(w, 1, 3))>> \o EmailsIn(SubSeq(w, 4, Len(w)))
    ELSE EmailsIn(Tail(w))

\* URL_RE.findall in one word, each URL followed by the domain of its hostname
UrlsIn(w) ==
    IF IsUrl(w)
    THEN <<RawIndicator("url", w)>>
         \o (IF Truthy(UrlHostname(w))
             THEN <<RawIndicator("domain", UrlHostname(w))>> ELSE <<>>)
    ELSE <<>>

\* HASH_RE.findall in one word
RECURSIVE HashesIn(_)
HashesIn(w) ==
    IF w = <<>> THEN <<>>
    ELSE (IF Head(w) \in HashTokens THEN <<RawIndicator("hash", <<Head(w)>>)>> ELSE <<>>)
         \o HashesIn(Tail(w))

\* DOMAIN_RE.findall in one word
RECURSIVE DomainsIn(_)
DomainsIn(w) ==
    IF w = <<>> THEN <<>>
    ELSE (IF Head(w) \in DomainTokens
          THEN <<RawIndicator("domain", <<DomainGroup(Head(w))>>)>> ELSE <<>>)
         \o DomainsIn(Tail(w))

\* _extract_from_text: one pass over the text per pattern (the texts of the
\* model hold no IPv6 address)
ExtractFromText(text) ==
    FlatMap(Ipv4In, text) \o FlatMap(EmailsIn, text) \o FlatMap(UrlsIn, text)
    \o FlatMap(HashesIn, text) \o FlatMap(DomainsIn, text)

\* the key of the dict `unique`
CandidateKey(c) == <<c.indicator_type, c.value, c.matched_field>>

\* unique[key] = indicator with the test of the key dropped: every candidate
\* is kept
UniquePutAlways(unique, indicator) == Append(unique, indicator)

\* unique[key] = indicator: a new key goes to the end of the dict, a known
\* key keeps its place and takes the new value
UniquePut(unique, indicator) ==
    IF \E i \in DOMAIN unique : CandidateKey(unique[i]) = CandidateKey(indicator)
    THEN [i \in DOMAIN unique |->
             IF CandidateKey(unique[i]) = CandidateKey(indicator)
             THEN indicator ELSE unique[i]]
    ELSE Append(unique, indicator)

\* lines 120-129: list(unique.values()) after the loop
RECURSIVE Unique(_, _)
Unique(unique, candidates) ==
    IF candidates = <<>> THEN unique
    ELSE Unique(UniquePut(unique, Head(candidates)), Tail(candidates))

\* lines 97-118: every candidate in the order of discovery
Discovered(event, metadata) ==
    FieldCandidates(NormalizeEventFields(event, metadata), 1)
    \o ExtractFromText(event.raw)

ExtractEventIndicators(event, metadata) == Unique(<<>>, Discovered(event, metadata))

----------------------------------------------------------------------------
(* Direct calls of the pure functions: the arguments are drawn at the start *)

\* the state before a direct call: nothing stored, the arguments in `ret`
InitArgs(args) ==
    /\ events = <<>>
    /\ indicators = <<>>
    /\ indicatorSeq = 0
    /\ sightings = <<>>
    /\ sightingSeq = 0
    /\ detections = <<>>
    /\ alerts = <<>>
    /\ incidents = <<>>
    /\ cases = <<>>
    /\ cache = [k \in CacheKeys |-> NoEntry]
    /\ clock = 0
    /\ pc = [p \in Procs |-> "idle"]
    /\ req = [p \in Procs |-> IdleReq]
    /\ called = [k \in Keys |-> 0]
    /\ processed = {}
    /\ lastSet = [k \in CacheKeys |-> [at |-> NoTime, data |-> <<>>, read |-> NoTime]]
    /\ reference = {}
    /\ ncalls = 0
    /\ ret \in args

\* what a direct call leaves alone
callFrame == <<storeVars, cache, clock, procVars, called, processed, lastSet, reference>>

\* the fields of an event payload that the normalizer and the key builder read
NoEvent ==
    [source |-> <<"syslog">>, source_ip |-> Absent, destination |-> Absent,
     tenant_id |-> Absent, asset_id |-> Absent, smtp_mail_from |-> Absent,
     smtp_rcpt_to |-> Absent, dns_query |-> Absent, client_ip |-> Absent,
     url |-> Absent, raw |-> <<>>]

\* the metadata keys that normalize_event_fields reads
NoMetadata ==
    [client_ip |-> Absent, destination_ip |-> Absent, dst_ip |-> Absent,
     domain |-> Absent, helo |-> Absent, sender |-> Absent, mail_from |-> Absent,
     recipient |-> Absent, rcpt_to |-> Absent, url |-> Absent,
     attachment_hash |-> Absent]

Tenants == {Absent, <<"t1">>}
Assets == {Absent, <<"a1">>}
SourceIps == {Absent, <<"1.2.3.4">>}
ClientIps == {Absent, <<"9.9.9.9">>}

\* envelope senders: none, the documented one, upper case, nothing after the
\* "@", no "@" at all
Senders ==
    {Absent, <<"a", "@", "x.com">>, <<"A", "@", "X.COM">>, <<"a", "@">>,
     <<"postmaster">>}

MailArgs ==
    { [op |-> "args", fn |-> "build_incident_key",
       event |-> [NoEvent EXCEPT !.source = <<"mail">>, !.tenant_id = t,
                                 !.asset_id = a, !.source_ip = ip,
                                 !.smtp_mail_from = mf, !.smtp_rcpt_to = rt,
                                 !.destination = d],
       metadata |-> [NoMetadata EXCEPT !.sender = ms, !.client_ip = cip]] :
      t \in Tenants, a \in Assets, ip \in SourceIps, mf \in Senders,
      rt \in {Absent, <<"b", "@", "y.com">>}, d \in {Absent, <<"d", "@", "w.com">>},
      ms \in {Absent, <<"c", "@", "z.com">>}, cip \in ClientIps }

DnsArgs ==
    { [op |-> "args", fn |-> "build_incident_key",
       event |-> [NoEvent EXCEPT !.source = <<"dns">>, !.tenant_id = t,
                                 !.asset_id = a, !.source_ip = ip,
                                 !.dns_query = q, !.client_ip = c,
                                 !.destination = d],
       metadata |-> [NoMetadata EXCEPT !.domain = md, !.client_ip = cip]] :
      t \in Tenants, a \in Assets, ip \in SourceIps, q \in {Absent, <<"Evil.com">>},
      c \in {Absent, <<"10.0.0.5">>}, d \in {Absent, <<"8.8.8.8">>},
      md \in {Absent, <<"m.com">>}, cip \in ClientIps }

\* URL fields: none, one with user, upper-case host and port, one without a
\* scheme (no network location), one with an empty host
Urls ==
    {Absent, <<"http", "://", "User", "@", "Evil.com", ":", "8080", "/p">>,
     <<"evil.com", "/p">>, <<"http", "://", "/p">>}

OtherArgs ==
    { [op |-> "args", fn |-> "build_incident_key",
       event |-> [NoEvent EXCEPT !.source = src, !.tenant_id = t,
                                 !.asset_id = a, !.source_ip = ip, !.url = u,
                                 !.destination = d],
       metadata |-> [NoMetadata EXCEPT !.url = mu, !.domain = md]] :
      src \in {<<"syslog">>, <<"network">>}, t \in Tenants, a \in Assets,
      ip \in SourceIps, u \in Urls, d \in {Absent, <<"gw.local">>},
      mu \in {Absent, <<"http", "://", "meta.io", "/u">>},
      md \in {Absent, <<"m.com">>} }

KeyArgs == MailArgs \cup DnsArgs \cup OtherArgs

\* app.py lines 254 and 331: the key of an event and its normalized fields
BuildIncidentKeyCall ==
    /\ ret.op = "args" /\ ret.fn = "build_incident_key"
    /\ LET normalized_fields == NormalizeEventFields(ret.event, ret.metadata)
       IN ret' = [op |-> "build_incident_key", event |-> ret.event,
                  metadata |-> ret.metadata, normalized_fields |-> normalized_fields,
                  key |-> BuildIncidentKey(ret.event, normalized_fields)]
    /\ ncalls' = ncalls + 1
    /\ UNCHANGED callFrame

NextKey == BuildIncidentKeyCall

SpecKey == InitArgs(KeyArgs) /\ [][NextKey]_vars

\* component values for two events under one source: absent, plain, holding
\* the ":" of the key format, and spelled like the placeholder of the component
PairTenants == {Absent, <<"t1">>, <<"t1", ":", "a1">>, <<"tenant-unknown">>}
PairAssets == {Absent, <<"a1">>, <<"b">>, <<"a1", ":", "b">>}
PairIps == {Absent, <<"1.2.3.4">>}

PairEvents ==
    { [NoEvent EXCEPT !.source = <<"mail">>, !.tenant_id = t, !.asset_id = a,
                      !.source_ip = ip, !.smtp_mail_from = mf] :
      t \in PairTenants, a \in PairAssets, ip \in PairIps,
      mf \in {Absent, <<"a", "@", "x.com">>, <<"a", "@", "sender-unknown">>} }
    \cup
    { [NoEvent EXCEPT !.source = <<"dns">>, !.tenant_id = t, !.asset_id = a,
                      !.source_ip = ip, !.dns_query = q] :
      t \in PairTenants, a \in PairAssets, ip \in PairIps,
      q \in {Absent, <<"evil.com">>, <<"dest-unknown">>} }
    \cup
    { [NoEvent EXCEPT !.source = <<"syslog">>, !.tenant_id = t, !.asset_id = a,
                      !.source_ip = ip, !.destination = d] :
      t \in PairTenants, a \in PairAssets, ip \in PairIps,
      d \in {Absent, <<"gw.local">>, <<"b", ":", "gw.local">>} }

\* two events of one source, each to be given its key
PairArgs ==
    { r \in { [op |-> "args", fn |-> "build_incident_key twice",
               first |-> e1, second |-> e2] : e1 \in PairEvents, e2 \in PairEvents } :
      r.first.source = r.second.source }

\* app.py lines 254 and 331 in the request of the first event
BuildIncidentKeyFirst ==
    /\ ret.op = "args" /\ ret.fn = "build_incident_key twice"
    /\ ret' = [op |-> "first_key", first |-> ret.first, second |-> ret.second,
               first_key |-> BuildIncidentKey(ret.first,
                                              NormalizeEventFields(ret.first, NoMetadata))]
    /\ ncalls' = ncalls + 1
    /\ UNCHANGED callFrame

\* app.py lines 254 and 331 in the request of the second event
BuildIncidentKeySecond ==
    /\ ret.op = "first_key"
    /\ ret' = [op |-> "keys", first |-> ret.first, second |-> ret.second,
               first_key |-> ret.first_key,
               second_key |-> BuildIncidentKey(ret.second,
                                               NormalizeEventFields(ret.second, NoMetadata))]
    /\ ncalls' = ncalls + 1
    /\ UNCHANGED callFrame

NextPair == BuildIncidentKeyFirst \/ BuildIncidentKeySecond

SpecPair == InitArgs(PairArgs) /\ [][NextPair]_vars

NormalizeArgs ==
    { [op |-> "args", fn |-> "normalize_event_fields",
       event |-> [NoEvent EXCEPT !.source = src, !.source_ip = ip, !.destination = d],
       metadata |-> [NoMetadata EXCEPT !.client_ip = cip, !.domain = md,
                                       !.recipient = mr, !.rcpt_to = mt, !.helo = h]] :
      src \in {<<"mail">>, <<"dns">>, <<"syslog">>}, ip \in SourceIps,
      d \in {Absent, <<"gw.local">>}, cip \in ClientIps, md \in {Absent, <<"m.com">>},
      mr \in {Absent, <<"r", "@", "y.com">>}, mt \in {Absent, <<"q", "@", "y.com">>},
      h \in {Absent, <<"mx1">>} }

NormalizeEventFieldsCall ==
    /\ ret.op = "args" /\ ret.fn = "normalize_event_fields"
    /\ ret' = [op |-> "normalize_event_fields", event |-> ret.event,
               metadata |-> ret.metadata,
               result |-> NormalizeEventFields(ret.event, ret.metadata)]
    /\ ncalls' = ncalls + 1
    /\ UNCHANGED callFrame

NextNormalize == NormalizeEventFieldsCall

SpecNormalize == InitArgs(NormalizeArgs) /\ [][NextNormalize]_vars

\* words of a raw text
Words ==
    { <<"contact">>, <<"phish", "@", "evil.com">>, <<"http", "://", "bad.tld", "/x">>,
      <<"http", "://", "Evil.com", "/x">>, <<"evil.com">>, <<"1.2.3.4">>,
      <<"D41D8CD98F00B204E9800998ECF8427E">> }

MaxWords == 2

\* the raw texts: every text of MaxWords words at most, and the documented one
RawTexts ==
    UNION { [1..n -> Words] : n \in 0..MaxWords }
    \cup { << <<"contact">>, <<"phish", "@", "evil.com">>, <<"or">>, <<"visit">>,
              <<"http", "://", "bad.tld", "/x">> >> }

ExtractArgs ==
    { [op |-> "args", fn |-> "extract_event_indicators",
       event |-> [NoEvent EXCEPT !.source = src, !.source_ip = ip, !.destination = d,
                                 !.raw = raw],
       metadata |-> [NoMetadata EXCEPT !.url = mu]] :
      src \in {<<"dns">>, <<"mail">>}, ip \in SourceIps,
      d \in {Absent, <<"evil.com">>}, mu \in {Absent, <<"http", "://", "bad.tld", "/x">>},
      raw \in RawTexts }

ExtractEventIndicatorsCall ==
    /\ ret.op = "args" /\ ret.fn = "extract_event_indicators"
    /\ ret' = [op |-> "extract_event_indicators", event |-> ret.event,
               metadata |-> ret.metadata,
               discovered |-> Discovered(ret.event, ret.metadata),
               result |-> ExtractEventIndicators(ret.event, ret.metadata)]
    /\ ncalls' = ncalls + 1
    /\ UNCHANGED callFrame

NextExtract == ExtractEventIndicatorsCall

SpecExtract == InitArgs(ExtractArgs) /\ [][NextExtract]_vars

\* base scores a rule may carry, past both ends of the clamp
MaxBelow == 3
MinScore == 0 - MaxBelow
MaxScore == 103
BaseScores == MinScore..MaxScore

\* confidences and severities of matches, past both ends of the clamp
Confidences == MinScore..MaxScore
Severities == {"low", "medium", "high", "critical", "High", "info"}

ScoreArgs ==
    [op : {"args"}, fn : {"score_detection"}, base_score : BaseScores]
    \cup [op : {"args"}, fn : {"score_sighting"}, confidence : Confidences,
          severity : Severities]

ScoreDetectionCall ==
    /\ ret.op = "args" /\ ret.fn = "score_detection"
    /\ ret' = [op |-> "score_detection", base_score |-> ret.base_score,
               result |-> ScoreDetection(ret.base_score)]
    /\ ncalls' = ncalls + 1
    /\ UNCHANGED callFrame

ScoreSightingCall ==
    /\ ret.op = "args" /\ ret.fn = "score_sighting"
    /\ ret' = [op |-> "score_sighting", confidence |-> ret.confidence,
               severity |-> ret.severity,
               result |-> ScoreSighting(ret.confidence, ret.severity)]
    /\ ncalls' = ncalls + 1
    /\ UNCHANGED callFrame

NextScore == ScoreDetectionCall \/ ScoreSightingCall

SpecScore == InitArgs(ScoreArgs) /\ [][NextScore]_vars

----------------------------------------------------------------------------
(* Properties *)

HighOrCritical(severity) == severity \in {"high", "critical", "High"}

CasesOf(tbl, key) == {i \in DOMAIN tbl : tbl[i].incident_key = key}
IncidentsOf(tbl, key) == {i \in DOMAIN tbl : tbl[i].key = key}

\* the handler takes its write step of update_incident
WriteStep(p) == pc[p] = "inc_write" /\ pc'[p] # "inc_write"

\* C1: the sightings table never holds two rows with the same (indicator,
\* event, matched field, matched value), and an insert_sighting call whose
\* tuple is already stored returns no id and leaves the table as it was.
C1_SightingsUnique ==
    /\ [](\A i, j \in DOMAIN sightings :
             SightingKey(sightings[i]) = SightingKey(sightings[j]) => i = j)
    /\ [][(ncalls' = ncalls + 1
           /\ \E i \in DOMAIN sightings : SightingKey(sightings[i]) = SightingKey(ret'.arg))
          => (ret'.id = NoId /\ sightings' = sightings)]_vars

\* a second insert of a stored tuple (with another score) was ignored
C1_Witness ==
    /\ ret.op = "insert_sighting"
    /\ ret.id = NoId
    /\ \E i \in DOMAIN sightings :
          /\ SightingKey(sightings[i]) = SightingKey(ret.arg)
          /\ sightings[i].score_delta # ret.arg.score_delta

\* C2: in ingest_event, a sighting insert that stores a row appends exactly one
\* detection of type cti_match with the match's severity and confidence and the
\* rule label source:type; an insert that stores no row appends no detection.
C2_SightingDetection ==
    [][(pc[Handler] = "sight" /\ req'[Handler] # req[Handler]) =>
        LET r == req[Handler]
            match == Head(r.matches)
            expected == [id |-> NoId, event_id |-> r.event_id,
                         detection_type |-> "cti_match",
                         severity |-> match.severity,
                         confidence |-> match.confidence,
                         rule |-> <<match.source, ":", match.indicator_type>>,
                         created_at |-> r.now]
        IN IF Len(sightings') = Len(sightings) + 1
           THEN req'[Handler].dets = Append(r.dets, expected)
           ELSE sightings' = sightings /\ req'[Handler].dets = r.dets]_vars

\* a recorded sighting whose cti_match detection was persisted
C2_Witness ==
    /\ sightings # <<>>
    /\ \E i \in DOMAIN detections :
          /\ detections[i].detection_type = "cti_match"
          /\ detections[i].rule = <<"feed", ":", "domain">>

\* C3: there is at most one incident row per correlation key, also when two
\* concurrent requests run update_incident for the same new key.
C3_OneIncidentPerKey ==
    \A i, j \in DOMAIN incidents : incidents[i].key = incidents[j].key => i = j

\* C4: in a sequential history an incident's count never decreases and equals
\* the number of update_incident calls made with its key.
C4_CountIsCalls ==
    /\ [](/\ \A i \in DOMAIN incidents : incidents[i].count = called[incidents[i].key]
          /\ \A k \in Keys : called[k] > 0 => Cardinality(IncidentsOf(incidents, k)) = 1)
    /\ [][\A i \in DOMAIN incidents :
             i \in DOMAIN incidents' /\ incidents'[i].count >= incidents[i].count]_vars

\* an incident counted three detections
C4_Witness == \E i \in DOMAIN incidents : incidents[i].count = 3

\* C5: update_incident on a new key creates the row with count 1 and
\* first_seen = last_seen = the detection time; on an existing key it sets
\* severity to the detection's (also when lower), sets last_seen to the
\* detection time and leaves first_seen alone.
C5_UpdateIncident ==
    [][WriteStep(Handler) =>
        LET k == req[Handler].key
            sev == req[Handler].det.severity
            ts == req[Handler].det.created_at
        IN IF IncidentsOf(incidents, k) = {}
           THEN /\ Cardinality(IncidentsOf(incidents', k)) = 1
                /\ \A i \in IncidentsOf(incidents', k) :
                      /\ incidents'[i].count = 1
                      /\ incidents'[i].first_seen = ts
                      /\ incidents'[i].last_seen = ts
           ELSE /\ IncidentsOf(incidents', k) = IncidentsOf(incidents, k)
                /\ \A i \in IncidentsOf(incidents, k) :
                      /\ incidents'[i].severity = sev
                      /\ incidents'[i].last_seen = ts
                      /\ incidents'[i].first_seen = incidents[i].first_seen]_vars

\* a low detection overwrote the severity of an incident that had seen a high
\* one, at a later time than the incident's first detection
C5_Witness ==
    \E i \in DOMAIN incidents :
        /\ incidents[i].severity = "low"
        /\ incidents[i].count >= 2
        /\ incidents[i].first_seen < incidents[i].last_seen
        /\ <<incidents[i].key, "high">> \in processed
        /\ called[incidents[i].key] = incidents[i].count

\* C6: a case exists for a key only if a high or critical detection was
\* processed under that key, and processing a low or medium detection adds no
\* case.
C6_CaseOnlyIfEscalated ==
    /\ [](\A i \in DOMAIN cases :
             \E pr \in processed : pr[1] = cases[i].incident_key /\ HighOrCritical(pr[2]))
    /\ [][(WriteStep(Handler) /\ ~HighOrCritical(req[Handler].det.severity))
          => Len(cases') = Len(cases)]_vars

\* low and medium detections were processed, one key has a case and the other,
\* with a medium detection only, has none
C6_Witness ==
    \E k1, k2 \in Keys :
        /\ CasesOf(cases, k1) # {}
        /\ <<k1, "low">> \in processed
        /\ CasesOf(cases, k2) = {}
        /\ <<k2, "medium">> \in processed
        /\ called[k2] > 0

\* C7: there is at most one case row per incident key, and a request whose
\* SELECT found no case although one exists when it writes gets a conflict
\* error and stores nothing.
C7_OneCasePerKey ==
    /\ [](\A i, j \in DOMAIN cases :
             cases[i].incident_key = cases[j].incident_key => i = j)
    /\ [][\A p \in Procs :
            (/\ WriteStep(p)
             /\ HighOrCritical(req[p].det.severity)
             /\ req[p].seen = NoId
             /\ CasesOf(cases, req[p].key) # {})
            => (/\ pc'[p] = "failed"
                /\ req'[p].error = "IntegrityError"
                /\ cases' = cases
                /\ incidents' = incidents)]_vars

\* the loser of the race: its INSERT into cases raised the conflict
C7_Witness ==
    \E p \in Procs :
        /\ pc[p] = "failed"
        /\ req[p].error = "IntegrityError"
        /\ Cardinality(CasesOf(cases, req[p].key)) = 1

\* C8: while a low or medium detection is processed, no case row changes.
C8_LowKeepsCase ==
    [][(/\ pc[Handler] \in {"persist", "alert", "inc_select", "case_select", "inc_write"}
        /\ pc'[Handler] # pc[Handler]
        /\ ~HighOrCritical(IF pc[Handler] = "persist"
                           THEN Head(req[Handler].dets).severity
                           ELSE req[Handler].det.severity))
       => cases' = cases]_vars

\* a low detection was processed after the key's case was opened
C8_Witness ==
    \E i \in DOMAIN incidents, j \in DOMAIN cases :
        /\ cases[j].incident_key = incidents[i].key
        /\ incidents[i].severity = "low"
        /\ HighOrCritical(cases[j].severity)
        /\ called[incidents[i].key] = incidents[i].count

\* C9: a high or critical detection under a key that has a case adds no case;
\* it sets the case's severity and updated_at to the detection's and leaves
\* every other column of the row, and every other row, alone.
C9_EscalationUpdatesCase ==
    [][(/\ WriteStep(Handler)
        /\ HighOrCritical(req[Handler].det.severity)
        /\ CasesOf(cases, req[Handler].key) # {})
       => /\ Len(cases') = Len(cases)
          /\ \A i \in DOMAIN cases :
                cases'[i] = IF cases[i].incident_key = req[Handler].key
                            THEN [cases[i] EXCEPT
                                    !.severity = req[Handler].det.severity,
                                    !.updated_at = req[Handler].det.created_at]
                            ELSE cases[i]]_vars

\* a case opened by a high detection was later raised to critical
C9_Witness ==
    \E i \in DOMAIN cases :
        /\ cases[i].severity = "critical"
        /\ cases[i].created_at < cases[i].updated_at
        /\ <<cases[i].incident_key, "high">> \in processed

\* C10: after set(key, list) at time T and no later set on the key, a get
\* before T + ttl returns the list and a get at or after T + ttl returns a miss
\* and leaves no entry for the key.
C10_CacheTtl ==
    [][\A k \in CacheKeys :
        (/\ ncalls' = ncalls + 1
         /\ ret'.op = "get"
         /\ ret'.key = k
         /\ lastSet[k].at # NoTime)
        => IF clock < lastSet[k].at + CacheTtl
           THEN /\ ret'.result = [hit |-> TRUE, data |-> lastSet[k].data]
                /\ cache'[k] = cache[k]
           ELSE /\ ret'.result = Miss
                /\ ~cache'[k].present]_vars

\* a get exactly at T + ttl missed and evicted the entry
C10_Witness ==
    /\ ret.op = "get"
    /\ ~ret.result.hit
    /\ lastSet[ret.key].at # NoTime
    /\ clock = lastSet[ret.key].at + CacheTtl
    /\ ~cache[ret.key].present

\* C15: the indicators table never holds two rows with the same (type, value,
\* source), and ingesting a stored (type, value, source) adds no row, returns
\* the stored row's id, keeps its id and first_seen and sets confidence,
\* severity, the revoked and false-positive flags, last_seen, expires_at and
\* tags to those of the new payload; every other row stays as it was.
C15_UpsertIndicator ==
    /\ [](\A i, j \in DOMAIN indicators :
             IndicatorKey(indicators[i]) = IndicatorKey(indicators[j]) => i = j)
    /\ [][indicatorSeq' = indicatorSeq + 1 =>
            LET a == ret'.arg
                ty == Lower(a.indicator_type)
                key == <<ty, NormalizeIndicatorValue(ty, a.value), a.source>>
                stored == {i \in DOMAIN indicators : IndicatorKey(indicators[i]) = key}
            IN /\ stored # {} => Len(indicators') = Len(indicators)
               /\ \A i \in DOMAIN indicators :
                     /\ i \in DOMAIN indicators'
                     /\ indicators'[i] =
                           IF i \in stored
                           THEN [indicators[i] EXCEPT
                                   !.confidence = a.confidence,
                                   !.severity = a.severity,
                                   !.revoked = IF a.revoked THEN 1 ELSE 0,
                                   !.false_positive = IF a.false_positive THEN 1 ELSE 0,
                                   !.last_seen = clock,
                                   !.expires_at = a.expires_at,
                                   !.tags = a.tags]
                           ELSE indicators[i]
               /\ \A i \in stored : ret'.id = indicators[i].id]_vars

\* the first indicator was ingested again later, revoked and with other tags,
\* after an indicator of another source was stored
C15_Witness ==
    /\ Len(indicators) = 2
    /\ indicators[1].id = 1
    /\ indicators[1].revoked = 1
    /\ indicators[1].tags = <<"retired">>
    /\ indicators[1].first_seen < indicators[1].last_seen
    /\ ret.op = "ingest_indicator"
    /\ ret.id = 1

\* the columns of a sighting row that the pipeline chooses
SightingFacts(s) ==
    [indicator_id |-> s.indicator_id, event_id |-> s.event_id,
     matched_field |-> s.matched_field, matched_value |-> s.matched_value,
     timestamp |-> s.timestamp, score_delta |-> s.score_delta]

\* the columns of a cti_match detection row that the pipeline chooses
DetectionFacts(d) ==
    [event_id |-> d.event_id, severity |-> d.severity, confidence |-> d.confidence,
     rule |-> d.rule, created_at |-> d.created_at]

\* C11: in a sequential history, once a request is over, the sightings stored
\* are exactly those the same requests record when every lookup is answered by
\* the store, and every stored cti_match detection is one of that pipeline's
\* (it stores them all unless a request ends on an error).
C11_CacheTransparent ==
    pc[Handler] = "idle" =>
        /\ {SightingFacts(sightings[i]) : i \in DOMAIN sightings}
              = {SightingFacts(e) : e \in reference}
        /\ {DetectionFacts(detections[i]) :
                i \in {j \in DOMAIN detections : detections[j].detection_type = "cti_match"}}
              \subseteq {[event_id |-> e.event_id, severity |-> e.severity,
                           confidence |-> e.confidence, rule |-> e.rule,
                           created_at |-> e.timestamp] : e \in reference}

\* C12: every sighting a request records refers to an indicator row that, in
\* the store as the request records it, is not revoked, not flagged
\* false-positive and not expired at the request's timestamp.
C12_SightingOfValidIndicator ==
    [][Len(sightings') > Len(sightings) =>
        LET s == sightings'[Len(sightings')]
        IN \E i \in DOMAIN indicators :
              /\ indicators[i].id = s.indicator_id
              /\ indicators[i].revoked = 0
              /\ indicators[i].false_positive = 0
              /\ (indicators[i].expires_at = NoTime
                    \/ indicators[i].expires_at > s.timestamp)]_vars

\* C13: a lookup of a key whose latest cached list is empty and has not
\* expired is a hit with no match, goes to no store fetch and leaves the cache
\* as it is; a lookup that misses is followed by one fetch_indicator_matches,
\* which leaves the cache alone, and then by one set of the fetched list, after
\* which the request fetches and sets no more for that candidate.
C13_EmptyListCached ==
    [][LET r == req[Handler]
           at == pc[Handler]
           to == pc'[Handler]
       IN /\ (at = "lookup" /\ req'[Handler] # r) =>
                LET k == <<Head(r.cands).indicator_type, Head(r.cands).value>>
                IN (/\ lastSet[k].at # NoTime
                    /\ lastSet[k].data = <<>>
                    /\ clock < lastSet[k].at + CacheTtl)
                   => (/\ to \notin {"fetch", "cacheset"}
                       /\ req'[Handler].matches = <<>>
                       /\ cache' = cache)
          /\ (at = "fetch" /\ to # at) =>
                /\ to = "cacheset"
                /\ cache' = cache
                /\ req'[Handler].matches =
                      FetchIndicatorMatches(indicators, r.cand.indicator_type,
                                            r.cand.value, r.now)
          /\ (at = "cacheset" /\ to # at) =>
                /\ to \notin {"fetch", "cacheset"}
                /\ cache' = [cache EXCEPT ![<<r.cand.indicator_type, r.cand.value>>] =
                                [present |-> TRUE, expires_at |-> clock + CacheTtl,
                                 data |-> r.matches]]]_vars

\* a request found the cached empty list although the store holds a match by
\* now: it recorded nothing
C13_Witness ==
    /\ pc[Handler] = "done"
    /\ req[Handler].cand = RawCandidate
    /\ req[Handler].event_id = 2
    /\ lastSet[<<"domain", "evil.com">>].data = <<>>
    /\ lastSet[<<"domain", "evil.com">>].at # NoTime
    /\ FetchIndicatorMatches(indicators, "domain", "evil.com", req[Handler].now) # <<>>
    /\ sightings = <<>>

\* C14: whatever the interleaving of concurrent requests, a get returns a
\* list only while the clock is short of the expiry of the entry it read, and
\* an entry leaves the cache only once the clock has reached its expiry.
C14_CacheConcurrencySafe ==
    [][/\ \A p \in Procs :
            (pc[p] = "get_check" /\ pc'[p] \notin {"get_check", "get_pop"})
            => clock < req[p].entry.expires_at
       /\ \A k \in CacheKeys :
            (cache[k].present /\ ~cache'[k].present) => clock >= cache[k].expires_at]_vars

\* C16: a notification e-mail that cannot be delivered fails no request: no
\* handler ends on the delivery error, and a request that met one still
\* processes every detection of its event.
C16_DeliveryFailureTolerated ==
    \A p \in Procs :
        req[p].error = "SMTPError" =>
            /\ pc[p] # "failed"
            /\ pc[p] = "done" => req[p].dets = <<>>

\* C17: a request whose rule configuration cannot be loaded fails with no
\* rule evaluated, and from its first step to its response no table of the
\* store changes.
C17_RulesFailureWritesNothing ==
    [][\A p \in Procs :
        /\ (pc[p] = "idle" /\ pc'[p] = "failed") =>
              /\ req'[p].error = "RulesError"
              /\ req'[p].dets = <<>>
              /\ storeVars' = storeVars
        /\ (pc[p] = "failed" /\ req[p].error = "RulesError") =>
              /\ pc'[p] \in {"failed", "idle"}
              /\ storeVars' = storeVars]_vars

\* a request failed on the rule configuration after an earlier one was stored,
\* and the caller has its error
C17_Witness ==
    /\ ret.op = "ingest_event"
    /\ ret.error = "RulesError"
    /\ ret.event_id = NoId
    /\ Len(events) = 1
    /\ detections # <<>>

\* C18: when a request failed after it stored its event and the caller has
\* submitted the same payload again, the sightings of the two attempts hold
\* each (indicator, matched field, matched value) once, as one complete run of
\* the request does.
C18_RetryIdempotent ==
    (/\ ret.op = "ingest_event"
     /\ ret.error # ""
     /\ ret.event_id # NoId
     /\ pc[Handler] = "done"
     /\ req[Handler].key = ret.key)
    => \A i, j \in DOMAIN sightings :
          (/\ {sightings[i].event_id, sightings[j].event_id}
                  \subseteq {ret.event_id, req[Handler].event_id}
           /\ sightings[i].indicator_id = sightings[j].indicator_id
           /\ sightings[i].matched_field = sightings[j].matched_field
           /\ sightings[i].matched_value = sightings[j].matched_value)
          => i = j

\* the alerts that refer to a detection
AlertsOf(d) == {j \in DOMAIN alerts : alerts[j].detection_id = d.id}

\* no handler is between the first and the last statement of the event's request
Completed(event_id) ==
    \A p \in Procs : req[p].event_id = event_id => pc[p] \in {"idle", "done", "failed"}

\* C19: every detection persisted by a request that has completed has
\* exactly one alert that refers to it, and that alert has the detection's
\* severity and the status open; when no request is in flight the alerts are as
\* many as the detections.
C19_OneAlertPerDetection ==
    /\ \A i \in DOMAIN detections :
          Completed(detections[i].event_id) =>
              /\ Cardinality(AlertsOf(detections[i])) = 1
              /\ \A j \in AlertsOf(detections[i]) :
                    /\ alerts[j].severity = detections[i].severity
                    /\ alerts[j].status = "open"
    /\ (\A p \in Procs : pc[p] \in {"idle", "done", "failed"})
          => Len(alerts) = Len(detections)

\* two requests that ran together have completed, and the alerts were stored
\* in the other order than their detections
C19_Witness ==
    /\ \A p \in Procs : pc[p] = "idle"
    /\ Len(detections) = 3
    /\ alerts[1].detection_id = 2
    /\ alerts[2].detection_id = 1

\* C24: for every integer base score a matching rule yields the confidence
\* min(100, max(1, base_score)), and the severity critical from 85, high from
\* 70 to 84, medium from 40 to 69 and low below 40.
C24_ScoreDetection ==
    ret.op = "score_detection" =>
        LET confidence == Min(100, Max(1, ret.base_score))
        IN /\ ret.result.confidence = confidence
           /\ confidence >= 85 => ret.result.severity = "critical"
           /\ (confidence >= 70 /\ confidence < 85) => ret.result.severity = "high"
           /\ (confidence >= 40 /\ confidence < 70) => ret.result.severity = "medium"
           /\ confidence < 40 => ret.result.severity = "low"

\* a base score below the clamp was scored: confidence 1, severity low
C24_Witness ==
    /\ ret.op = "score_detection"
    /\ ret.base_score < 1
    /\ ret.result = [confidence |-> 1, severity |-> "low"]

\* the base the claim gives each severity tier
ClaimedBase(severity) ==
    CASE Lower(severity) = "low" -> 10
      [] Lower(severity) = "medium" -> 30
      [] Lower(severity) = "high" -> 60
      [] Lower(severity) = "critical" -> 90
      [] OTHER -> 20

\* C25: for every integer confidence and every severity score_sighting returns
\* floor(base * clamp(confidence, 0, 100) / 100), base 10 for low, 30 for
\* medium, 60 for high, 90 for critical and 20 otherwise; (100, critical) is
\* 90, (50, high) is 30 and (0, low) is 0.
C25_ScoreSighting ==
    ret.op = "score_sighting" =>
        /\ ret.result =
              (ClaimedBase(ret.severity) * Max(0, Min(100, ret.confidence))) \div 100
        /\ (ret.confidence = 100 /\ ret.severity = "critical") => ret.result = 90
        /\ (ret.confidence = 50 /\ ret.severity = "high") => ret.result = 30
        /\ (ret.confidence = 0 /\ ret.severity = "low") => ret.result = 0

\* what follows the first "@" of an address, as written; absent without an "@"
AfterAt(address) ==
    IF \E i \in DOMAIN address : address[i] = "@"
    THEN SubSeq(address, IndexOf(address, {"@"}) + 1, Len(address))
    ELSE Absent

\* the mail key with the given domains; tenant, asset and source ip as the
\* event gives them (the source ip as normalized), each with its placeholder
MailKeyOf(r, sender, rcpt) ==
    Join(<<"mail", ":">> \o Or(r.event.tenant_id, <<"tenant-unknown">>) \o <<":">>
         \o Or(r.event.asset_id, <<"asset-unknown">>) \o <<":">>
         \o Or(sender, <<"sender-unknown">>) \o <<":">>
         \o Or(rcpt, <<"rcpt-unknown">>) \o <<":">>
         \o Or(Get(r.normalized_fields, "src_ip"), <<"ip-unknown">>))

\* the documented example: a@x.com to b@y.com from 1.2.3.4, tenant t1, asset a1
MailKeyExample(r) ==
    (/\ r.event.smtp_mail_from = <<"a", "@", "x.com">>
     /\ r.event.smtp_rcpt_to = <<"b", "@", "y.com">>
     /\ r.event.source_ip = <<"1.2.3.4">>
     /\ r.event.tenant_id = <<"t1">> /\ r.event.asset_id = <<"a1">>)
    => r.key = "mail:t1:a1:x.com:y.com:1.2.3.4"

\* C21 as stated: for every mail event the key is
\* mail:{tenant}:{asset}:{sender domain}:{recipient domain}:{source ip}, each
\* domain the part after "@" of the event's SMTP address or else of the
\* normalized address, an absent component replaced by its placeholder.
C21_MailKeyAsStated ==
    (ret.op = "build_incident_key" /\ ret.event.source = <<"mail">>) =>
        /\ ret.key =
              MailKeyOf(ret,
                      Or(AfterAt(ret.event.smtp_mail_from),
                         AfterAt(Get(ret.normalized_fields, "mail_from"))),
                      Or(AfterAt(ret.event.smtp_rcpt_to),
                         AfterAt(Get(ret.normalized_fields, "rcpt_to"))))
        /\ MailKeyExample(ret)

\* C21, amended: for every mail event the key is
\* mail:{tenant}:{asset}:{sender domain}:{recipient domain}:{source ip}, each
\* domain the part after the first "@" of the event's SMTP address or else of
\* the normalized address, in lower case, an absent component replaced by its
\* placeholder.
C21_MailKey ==
    (ret.op = "build_incident_key" /\ ret.event.source = <<"mail">>) =>
        /\ ret.key =
              MailKeyOf(ret,
                      Or(LowerSeq(AfterAt(ret.event.smtp_mail_from)),
                         LowerSeq(AfterAt(Get(ret.normalized_fields, "mail_from")))),
                      Or(LowerSeq(AfterAt(ret.event.smtp_rcpt_to)),
                         LowerSeq(AfterAt(Get(ret.normalized_fields, "rcpt_to")))))
        /\ MailKeyExample(ret)

\* the key of a mail event whose envelope sender is written in upper case
C21_Witness ==
    /\ ret.op = "build_incident_key"
    /\ ret.event.smtp_mail_from = <<"A", "@", "X.COM">>
    /\ ret.key = "mail:t1:a1:x.com:y.com:1.2.3.4"

\* C22: for every dns event the key is dns:{tenant}:{asset}:{query}:{client ip},
\* the query being the explicit DNS query field if present, else the
\* normalized domain, else the event destination, and the client ip the
\* explicit client IP if present, else the normalized source IP.
C22_DnsKey ==
    (ret.op = "build_incident_key" /\ ret.event.source = <<"dns">>) =>
        LET query == Or(Or(ret.event.dns_query, Get(ret.normalized_fields, "domain")),
                        ret.event.destination)
            client_ip == Or(ret.event.client_ip, Get(ret.normalized_fields, "src_ip"))
        IN (Truthy(query) /\ Truthy(client_ip)) =>
              ret.key =
                 Join(<<"dns", ":">> \o Or(ret.event.tenant_id, <<"tenant-unknown">>)
                      \o <<":">> \o Or(ret.event.asset_id, <<"asset-unknown">>)
                      \o <<":">> \o query \o <<":">> \o client_ip)

\* a dns event with a query field and a destination, no client IP of its own:
\* the key names the query and the normalized source IP
C22_Witness ==
    /\ ret.op = "build_incident_key"
    /\ ret.event.source = <<"dns">>
    /\ ret.event.dns_query = <<"Evil.com">>
    /\ ret.event.destination = <<"8.8.8.8">>
    /\ ret.event.client_ip = Absent
    /\ ret.key = "dns:t1:a1:Evil.com:9.9.9.9"

\* C23: for every event whose source is neither mail nor dns the key is
\* {source}:{tenant}:{asset}:{primary}:{source ip}, the primary being the
\* hostname of the event's URL field if it has one, else the normalized
\* domain, else the normalized URL string, else the destination.
C23_OtherKey ==
    (ret.op = "build_incident_key" /\ ret.event.source \notin {<<"mail">>, <<"dns">>}) =>
        LET primary ==
                Or(Or(Or(UrlDomain(ret.event.url), Get(ret.normalized_fields, "domain")),
                      Get(ret.normalized_fields, "url")),
                   ret.event.destination)
        IN Truthy(primary) =>
              ret.key =
                 Join(ret.event.source \o <<":">>
                      \o Or(ret.event.tenant_id, <<"tenant-unknown">>) \o <<":">>
                      \o Or(ret.event.asset_id, <<"asset-unknown">>) \o <<":">>
                      \o primary \o <<":">>
                      \o Or(Get(ret.normalized_fields, "src_ip"), <<"ip-unknown">>))

\* an event with a URL field, a normalized URL and a destination: the key
\* names the host of the URL field
C23_Witness ==
    /\ ret.op = "build_incident_key"
    /\ ret.event.source = <<"syslog">>
    /\ "url" \in DOMAIN ret.normalized_fields
    /\ Truthy(ret.event.destination)
    /\ ret.key = "syslog:t1:a1:evil.com:1.2.3.4"

\* C27: normalize_event_fields returns only keys whose value is non-empty; for
\* a dns event with no explicit domain the domain field is the event's
\* destination, for a mail event with no explicit recipient the rcpt_to field
\* is the event's destination, and for any other source the destination
\* populates neither field.
C27_NormalizeEventFields ==
    ret.op = "normalize_event_fields" =>
        LET event == ret.event
            metadata == ret.metadata
            fields == ret.result
        IN /\ \A k \in DOMAIN fields : fields[k] # Absent
           /\ (event.source = <<"dns">> /\ metadata.domain = Absent) =>
                 Get(fields, "domain") = event.destination
           /\ (/\ event.source = <<"mail">>
               /\ metadata.recipient = Absent /\ metadata.rcpt_to = Absent) =>
                 Get(fields, "rcpt_to") = event.destination
           /\ (event.source \notin {<<"dns">>, <<"mail">>} /\ Truthy(event.destination)) =>
                 /\ Get(fields, "domain") # event.destination
                 /\ Get(fields, "rcpt_to") # event.destination

\* a mail event without a recipient in its metadata: the destination stands
\* in for it, and the fields without a value are not returned
C27_Witness ==
    /\ ret.op = "normalize_event_fields"
    /\ ret.event.source = <<"mail">>
    /\ ret.event.destination = <<"gw.local">>
    /\ ret.metadata.helo = Absent
    /\ DOMAIN ret.result = {"src_ip", "rcpt_to"}
    /\ ret.result.rcpt_to = <<"gw.local">>

\* C26: the list returned by extract_event_indicators never holds two
\* candidates with the same (type, normalized value, matched_field); its keys
\* are the keys of all candidates discovered in the canonical fields and the
\* raw text; and for each key the candidate retained is the last one discovered.
C26_ExtractDeduplicates ==
    ret.op = "extract_event_indicators" =>
        LET found == ret.discovered
            kept == ret.result
        IN /\ \A i, j \in DOMAIN kept :
                 CandidateKey(kept[i]) = CandidateKey(kept[j]) => i = j
           /\ {CandidateKey(kept[i]) : i \in DOMAIN kept}
                 = {CandidateKey(found[i]) : i \in DOMAIN found}
           /\ \A i \in DOMAIN kept :
                 \E j \in DOMAIN found :
                    /\ kept[i] = found[j]
                    /\ \A k \in (j + 1)..Len(found) :
                          CandidateKey(found[k]) # CandidateKey(kept[i])

\* a text that names the same URL twice: four of its candidates are discovered
\* a second time, and the list returned holds each of them once
C26_Witness ==
    /\ ret.op = "extract_event_indicators"
    /\ ret.event.raw = << <<"http", "://", "bad.tld", "/x">>,
                          <<"http", "://", "bad.tld", "/x">> >>
    /\ Len(ret.discovered) = Len(ret.result) + 3
    /\ \E i \in DOMAIN ret.result :
          ret.result[i] = [indicator_type |-> "domain", value |-> "bad.tld",
                           matched_field |-> "raw", matched_value |-> "bad.tld"]

\* C28: a match list returned by a cache hit at time t was read from the
\* store later than t - TTL, also when time advances or an indicator is
\* ingested between the request's store fetch and its cache set.
C28_StalenessBounded ==
    [][(pc[Handler] = "lookup" /\ req'[Handler] # req[Handler]) =>
          LET cand == Head(req[Handler].cands)
              k == <<cand.indicator_type, cand.value>>
          IN (cache[k].present /\ clock < cache[k].expires_at) =>
                /\ req'[Handler].matches = lastSet[k].data
                /\ lastSet[k].read > clock - CacheTtl]_vars

\* C29: under a rule configuration that holds a rule whose pattern is not a
\* valid regular expression, the request fails before its event is stored and
\* before any rule of that configuration is evaluated.
C29_InvalidPatternRejectedAtLoad ==
    [][\A p \in Procs :
        /\ (pc[p] = "idle" /\ pc'[p] = "evaluate") =>
              /\ events' = events
              /\ req'[p].dets = <<>>
        /\ pc[p] = "evaluate" =>
              /\ pc'[p] \in {"evaluate", "failed"}
              /\ storeVars' = storeVars]_vars

\* C30: an incident row that is linked to a case stays linked to that same
\* case through every later detection under its key, whatever the severity.
C30_IncidentStaysLinked ==
    [][\A i \in DOMAIN incidents :
        incidents[i].case_id # NoId =>
            /\ i \in DOMAIN incidents'
            /\ incidents'[i].key = incidents[i].key
            /\ incidents'[i].case_id = incidents[i].case_id]_vars

\* C31: every incident row has first_seen <= last_seen in every reachable
\* state, also when two concurrent requests took their detection timestamps in
\* one order and reach update_incident for the same key in the other order.
C31_FirstSeenBeforeLastSeen ==
    \A i \in DOMAIN incidents : incidents[i].first_seen <= incidents[i].last_seen

\* the ids of the rows of a table
Ids(tbl) == {tbl[i].id : i \in DOMAIN tbl}

\* C32: referential integrity in every reachable state: every sighting refers
\* to a stored event and a stored indicator, every detection to a stored
\* event, every alert to a stored detection, and every case's incident key
\* has an incident row.
C32_ReferentialIntegrity ==
    /\ \A i \in DOMAIN sightings :
          /\ sightings[i].event_id \in Ids(events)
          /\ sightings[i].indicator_id \in Ids(indicators)
    /\ \A i \in DOMAIN detections : detections[i].event_id \in Ids(events)
    /\ \A i \in DOMAIN alerts : alerts[i].detection_id \in Ids(detections)
    /\ \A i \in DOMAIN cases :
          \E j \in DOMAIN incidents : incidents[j].key = cases[i].incident_key

\* a sighting, its detection, the detection's alert and a case are stored, with
\* a second event stored after the one they belong to
C32_Witness ==
    /\ sightings # <<>>
    /\ \E i \in DOMAIN detections : detections[i].detection_type = "cti_match"
    /\ \E i \in DOMAIN alerts : alerts[i].detection_id # detections[alerts[i].detection_id].event_id
    /\ cases # <<>>
    /\ Len(events) > 1

\* the components of an event's key as the event and its normalized fields
\* give them, each spelled out, absent ones empty: tenant, asset, the domain or
\* primary component of the event's source, and the source (client) IP
KeyComponents(event) ==
    LET nf == NormalizeEventFields(event, NoMetadata)
        primary ==
            IF event.source = <<"mail">>
            THEN Join(Or(EmailDomain(event.smtp_mail_from),
                         EmailDomain(Get(nf, "mail_from"))))
                 \o "," \o
                 Join(Or(EmailDomain(event.smtp_rcpt_to), EmailDomain(Get(nf, "rcpt_to"))))
            ELSE IF event.source = <<"dns">>
            THEN Join(Or(Or(event.dns_query, Get(nf, "domain")), event.destination))
            ELSE Join(Or(Or(Or(UrlDomain(event.url), Get(nf, "domain")), Get(nf, "url")),
                         event.destination))
        ip == IF event.source = <<"dns">>
              THEN Or(Or(event.client_ip, Get(nf, "src_ip")), event.source_ip)
              ELSE Or(event.source_ip, Get(nf, "src_ip"))
    IN <<Join(event.tenant_id), Join(event.asset_id), primary, Join(ip)>>

\* C33: the correlation key is injective in its components: two events of the
\* same source that differ in tenant, asset, domain or primary component, or
\* source IP never receive the same key, also when a component holds ":" or
\* is spelled like a placeholder.
C33_KeyInjective ==
    (/\ ret.op = "keys"
     /\ ret.first.source = ret.second.source
     /\ KeyComponents(ret.first) # KeyComponents(ret.second))
    => ret.first_key # ret.second_key

====
